---- MODULE Spec2Model ----
(***************************************************************************)
(* Model of the operation orchestrator of mass-token-buy-web:              *)
(* TransactionManager (transactions.ts) driving the ledger (database.ts),  *)
(* the chain / swap clients and the key vault, and the App entry point     *)
(* (app.ts) that starts and stops operations.                              *)
(*                                                                         *)
(* Every `await` of the code is a point where another handler may run.     *)
(* A step of the model runs the code from one await to the next one that   *)
(* touches shared state (the ledger, the chain, the manager's flags):      *)
(* reads of balances and fee data and the fixed delays are folded into the *)
(* step that follows them.                                                 *)
(*                                                                         *)
(* Wallet addresses are the ledger ids of the wallet records; 0 is the     *)
(* master wallet.  A balance is abstracted to "holds an amount above the   *)
(* transfer thresholds" (ethHeld, tokHeld).                                *)
(*                                                                         *)
(* The functions that compute amounts (generateRandomAllocations, the swap *)
(* amount) are modelled on their own, on whole amounts of a smallest unit  *)
(* and with numbers that keep MantissaBits significant bits.               *)
(***************************************************************************)
EXTENDS Integers, Sequences, FiniteSets, TLC

\* ------------------------------------------------------------------ bounds
MaxWallets == 2      \* largest config.numWallets tried
MaxFaults == 2       \* collaborator calls that throw in one behaviour
MaxRequests == 3     \* start requests (form submissions) in one behaviour
MaxRuns == 2         \* executeOperation calls accepted one after the other
Granularity == 2     \* clock units per watchdog interval
MaxIntervals == 13   \* watchdog intervals the clock runs for
MantissaBits == 3    \* significant bits of a number (53 in the code)
MaxAmount == 14      \* largest amount given to the allocation and swap functions
MaxGasPrice == 2     \* largest gas price getFeeData reports

\* ---------------------------------------------------------------- constants
WatchdogIntervalMs == 10000   \* setInterval(..., 10000)
watchdogTimeout == 60000      \* private watchdogTimeout: number = 60000
swapGasLimit == 500000        \* const swapGasLimit = BigInt(500000)
GasBufferPercent == 150       \* ... * BigInt(150) / BigInt(100)

VARIABLES
    \* TransactionManager fields
    isRunning, shouldStop, watchdogTimer, timers,
    \* the frame of the accepted executeOperation call
    pc, i, config, wallets, txId, status, error, cleanupError, allWallets,
    sweepEth, result,
    \* Database (the ledger)
    walletsDb, txDb,
    \* the chain: submissions made, and which wallets hold ETH / tokens
    chain, ethHeld, tokHeld,
    \* last snapshot handed to onStatusUpdate
    published,
    \* outcome of the most recent executeOperation call made while running
    callResult,
    \* the frame of a transferBackFromWallet call
    tbPc, tbWallet, tbTxId, tbError,
    \* what the wallet of that call was when the call was made (history)
    tbInitial,
    \* environment: collaborator calls that threw so far
    faults,
    \* history of the run (not program state)
    h,
    \* the watchdog: the clock, the fields lastActivityTime and isStuck, the
    \* time of the timer's next tick, what the last tick logged, and the
    \* warnings logged since the last reported sub-step (history)
    now, lastActivityTime, isStuck, nextTick, wdLog, wdWarnings,
    \* App fields and the start requests in flight (app.ts)
    isUnlocked, startDisabled, transactionManager, reqPc, mgrRunning, mgrStop,
    \* Database: the 'config' store
    configDb,
    \* the balance of the master wallet as getBalance returned it (line 74);
    \* 0 until it is read
    masterBalance,
    \* the arguments and the outcome of a call of generateRandomAllocations
    allocInput, allocOutput,
    \* the values the swap amount of one wallet is computed from, and what
    \* the iteration of the swap loop did with them
    swapInput, swapOutput,
    \* the balances and fee data one wallet is emptied under, and what the
    \* consolidation iteration and transferBackFromWallet decide on them
    backInput, backOutput

mgr == <<isRunning, shouldStop, watchdogTimer, timers>>
frame == <<pc, i, config, wallets, txId, status, error, cleanupError, allWallets,
           sweepEth, result>>
ledger == <<walletsDb, txDb>>
net == <<chain, ethHeld, tokHeld>>
tbVars == <<tbPc, tbWallet, tbTxId, tbError, tbInitial>>
appVars == <<isUnlocked, startDisabled, transactionManager, reqPc, mgrRunning, mgrStop>>
wdVars == <<now, lastActivityTime, isStuck, nextTick, wdLog, wdWarnings>>
tmVars == <<mgr, frame, ledger, net, published, callResult, tbVars, faults, h, wdVars>>
pureVars == <<allocInput, allocOutput, swapInput, swapOutput, backInput, backOutput>>
extraVars == <<configDb, masterBalance, pureVars>>
vars == <<tmVars, appVars, extraVars>>

\* ------------------------------------------------------------ data model
WalletStatus == {"created", "funded", "swapped", "transferred", "completed"}
TxStatus == {"pending", "success", "failed"}
TxType == {"fund_transfer", "token_swap", "token_transfer", "eth_transfer"}

\* Key material: a private key as it is generated or typed, and what
\* CryptoService.encrypt makes of it (salt + iv + AES-GCM output, base64).
PlainKey(owner) == [form |-> "plaintext", of |-> owner]
Encrypt(secret) == [form |-> "ciphertext", of |-> secret.of]

\* WalletService.createWallet builds the record with status 'created' and the
\* encrypted private key of the wallet it generated.
NewWalletInfo ==
    [status |-> "created", own |-> TRUE, encryptedPrivateKey |-> Encrypt(PlainKey("wallet"))]

\* UIManager.getConfigFromForm: the master private key is the trimmed value
\* of the form's input.
ConfigFromForm == [masterPrivateKey |-> PlainKey("master")]

\* A Transaction record as the code builds it: always status 'pending'.
\* `by` (run, sweep, back, earlier) is history: which code path wrote it.
\* `wallet` is the sub-wallet the action is about: the sender, or for a
\* fund_transfer the receiver (the sender is the master wallet, 0).
NewTx(type, w, by) ==
    [type |-> type, from |-> IF type = "fund_transfer" THEN 0 ELSE w, wallet |-> w,
     status |-> "pending", by |-> by]

\* Database.updateWallet / updateTransaction: merge the update into record id.
UpdateWallet(db, id, st) == [db EXCEPT ![id].status = st]
UpdateTransaction(db, id, st) == [db EXCEPT ![id].status = st]

\* OperationStatus as executeOperation initialises it.  progress is kept as
\* progress * (numWallets * 4), so that it stays an integer.
InitialStatus ==
    [isRunning |-> TRUE, walletsCreated |-> 0, ethTransferred |-> 0,
     swapsCompleted |-> 0, tokensTransferred |-> 0,
     currentStep |-> "Starting...", progress |-> 0]

NoResult == [kind |-> "none", error |-> "none"]

\* getWallet found no record (or no call was made yet).
NoWallet == [status |-> "none", funds |-> FALSE]

\* The phase a position of executeOperation belongs to.
PhaseOf(p) ==
    CASE p = "idle" -> "idle"
      [] p = "load" -> "load"
      [] p \in {"create", "saveWallet"} -> "create"
      [] p \in {"fund", "fundTransfer", "fundUpdateTx", "fundUpdateWallet", "fundCatch"} -> "fund"
      [] p \in {"swap", "swapSubmit", "swapUpdateTx", "swapUpdateWallet"} -> "swap"
      [] p \in {"consol", "consolTokSubmit", "consolTokUpdate", "consolTokFailed", "consolEth", "consolEthSubmit",
                "consolEthUpdate", "consolMark", "consolCatch"} -> "consolidate"
      [] p \in {"cleanupGetAll", "cleanup", "cleanTokSubmit", "cleanTokUpdate", "cleanEth",
                "cleanEthSubmit", "cleanEthUpdate", "cleanMark"} -> "sweep"
      [] OTHER -> "settled"

\* ---------------------------------------------------------------- numbers
\* Amounts are whole numbers of the smallest unit.  A JavaScript number keeps
\* MantissaBits significant bits: Fl rounds to the nearest number that has
\* such a representation, ties to the even one, as every arithmetic
\* operation on numbers and parseFloat do.
Min(a, b) == IF a < b THEN a ELSE b
Max(a, b) == IF a > b THEN a ELSE b
Pow2(k) == 2 ^ k

RECURSIVE Quantum(_, _)
Quantum(x, q) == IF x < q * Pow2(MantissaBits) THEN q ELSE Quantum(x, 2 * q)

FlAbs(x) ==
    LET q == Quantum(x, 1)
        lo == (x \div q) * q
        r == x - lo
    IN  IF 2 * r < q THEN lo
        ELSE IF 2 * r > q THEN lo + q
        ELSE IF (lo \div q) % 2 = 0 THEN lo ELSE lo + q

Fl(x) == IF x < 0 THEN 0 - FlAbs(0 - x) ELSE FlAbs(x)
FlAdd(a, b) == Fl(a + b)
FlSub(a, b) == Fl(a - b)
FlMul(a, b) == Fl(a * b)

\* The numbers from lo to hi.
Numbers(lo, hi) == {x \in lo..hi : Fl(x) = x}

\* Math.random() * x for x > 0: Math.random() is in [0, 1), the product is a
\* number from 0 up to, and never equal to, x.
RandomBelow(x) == Numbers(0, x - 1)

\* array.reduce((sum, val) => sum + val, 0)
RECURSIVE SumFrom(_, _, _)
SumFrom(a, k, sum) == IF k > Len(a) THEN sum ELSE SumFrom(a, k + 1, FlAdd(sum, a[k]))
Reduce(a) == SumFrom(a, 1, 0)

\* ------------------------------------------------ generateRandomAllocations
\* The loop of lines 939-950 from wallet k on: every outcome the random draws
\* can give, as the pairs of `allocations` and `remaining` after the loop.
RECURSIVE Distribute(_, _, _, _, _)
Distribute(k, numWallets, allocations, remaining, maxCanAdd) ==
    IF k > numWallets - 1
      THEN {[allocations |-> allocations, remaining |-> remaining]}
      ELSE LET maxSafeAdd == Min(maxCanAdd, remaining)
           IN  IF maxSafeAdd > 0
                 THEN UNION {Distribute(k + 1, numWallets,
                                        [allocations EXCEPT ![k] = FlAdd(@, add)],
                                        FlSub(remaining, add), maxCanAdd) :
                             add \in RandomBelow(maxSafeAdd)}
                 ELSE Distribute(k + 1, numWallets, allocations, remaining, maxCanAdd)

\* Variant of generateRandomAllocations without the feasibility check of
\* lines 922-927.
generateRandomAllocationsUnchecked(numWallets, totalAvailable, minAmount, maxAmount) ==
    {[kind |-> "returned", error |-> "none",
      allocations |-> [d.allocations EXCEPT
                         ![numWallets] = FlAdd(@, Min(FlSub(maxAmount, minAmount), d.remaining))],
      warned |-> totalAvailable > FlMul(numWallets, maxAmount)] :
     d \in Distribute(1, numWallets, [j \in 1..numWallets |-> minAmount],
                      FlSub(totalAvailable, FlMul(numWallets, minAmount)),
                      FlSub(maxAmount, minAmount))}

\* generateRandomAllocations (lines 912-958): the set of its possible
\* outcomes.  It throws, or it returns the allocations, having logged the
\* warning of line 930 or not.
generateRandomAllocations(numWallets, totalAvailable, minAmount, maxAmount) ==
    LET minRequired == FlMul(numWallets, minAmount)
        maxPossible == FlMul(numWallets, maxAmount)
        lastWalletMax == FlSub(maxAmount, minAmount)
    IN  IF totalAvailable < minRequired
          THEN {[kind |-> "thrown", error |-> "insufficient", allocations |-> <<>>,
                 warned |-> FALSE]}
          ELSE {[kind |-> "returned", error |-> "none",
                 allocations |-> [d.allocations EXCEPT
                                    ![numWallets] = FlAdd(@, Min(lastWalletMax, d.remaining))],
                 warned |-> totalAvailable > maxPossible] :
                d \in Distribute(1, numWallets, [j \in 1..numWallets |-> minAmount],
                                 FlSub(totalAvailable, minRequired),
                                 FlSub(maxAmount, minAmount))}

\* ------------------------------------------------------------------- Init
\* What earlier runs can have left in the ledger: nothing, or a completed
\* wallet (it holds nothing) followed by a wallet that was swapped and never
\* consolidated (it holds tokens and ETH).  Each wallet comes with the last
\* transaction record the earlier run wrote for it.
PreLedgers == {<<>>, <<"completed", "swapped">>}
PreTxType(kind) ==
    CASE kind = "funded" -> "fund_transfer"
      [] kind = "swapped" -> "token_swap"
      [] OTHER -> "eth_transfer"

InitialHistory ==
    [cleanupStarts |-> 0, stopPhase |-> "none", touched |-> {}, begun |-> {},
     fundThrew |-> {}, otherFault |-> FALSE, generated |-> 0, runs |-> 0,
     earlierStop |-> FALSE]

\* The history kept is that of the current run: a call accepted after an
\* earlier one has settled starts it afresh, counts one more run and
\* remembers whether an earlier run was asked to stop.
RunHistory ==
    [(IF pc = "done"
        THEN [InitialHistory EXCEPT !.earlierStop = h.earlierStop \/ h.stopPhase # "none"]
        ELSE h) EXCEPT !.runs = h.runs + 1]

TMInit ==
    /\ isRunning = FALSE
    /\ shouldStop = FALSE
    /\ watchdogTimer = FALSE
    /\ timers = 0
    /\ pc = "idle"
    /\ i = 0
    /\ config = [numWallets |-> 0, kind |-> "none"]
    /\ wallets = <<>>
    /\ txId = 0
    /\ status = InitialStatus
    /\ error = "none"
    /\ cleanupError = "none"
    /\ allWallets = <<>>
    /\ sweepEth = FALSE
    /\ result = NoResult
    /\ \E f \in PreLedgers :
          /\ walletsDb = [j \in 1..Len(f) |->
                            [NewWalletInfo EXCEPT !.status = f[j], !.own = FALSE]]
          /\ txDb = [j \in 1..Len(f) |->
                       [type |-> PreTxType(f[j]),
                        from |-> IF f[j] = "funded" THEN 0 ELSE j, wallet |-> j,
                        status |-> "success", by |-> "earlier"]]
          /\ ethHeld = {j \in 1..Len(f) : f[j] \in {"funded", "swapped"}}
          /\ tokHeld = {j \in 1..Len(f) : f[j] = "swapped"}
    /\ chain = {}
    /\ published = "none"
    /\ callResult = "none"
    /\ tbPc = "idle"
    /\ tbWallet = 0
    /\ tbTxId = 0
    /\ tbError = "none"
    /\ tbInitial = NoWallet
    /\ faults = 0
    /\ h = InitialHistory
    /\ now = 0
    /\ lastActivityTime = 0
    /\ isStuck = FALSE
    /\ nextTick = 0
    /\ wdLog = "none"
    /\ wdWarnings = 0

AppInit ==
    /\ isUnlocked = FALSE
    /\ startDisabled = FALSE
    /\ transactionManager = 0
    /\ reqPc = [r \in 1..MaxRequests |-> "none"]
    /\ mgrRunning = [r \in 1..MaxRequests |-> FALSE]
    /\ mgrStop = [r \in 1..MaxRequests |-> FALSE]

\* No configuration was saved, the master balance was not read, and the
\* functions checked on their own are not in use.
NoConfig == [kind |-> "none"]
NoInput == [kind |-> "none"]
NoOutput == [kind |-> "none"]
NoBackOutput == [consolidation |-> NoOutput, transferBack |-> NoOutput]

ExtraInit ==
    /\ configDb = NoConfig
    /\ masterBalance = 0
    /\ allocInput = NoInput
    /\ allocOutput = NoOutput
    /\ swapInput = NoInput
    /\ swapOutput = NoOutput
    /\ backInput = NoInput
    /\ backOutput = NoBackOutput

Init == TMInit /\ AppInit /\ ExtraInit

\* ------------------------------------------------- pieces of executeOperation
\* Variant of the finally block without stopWatchdog.
FinallyLeavesTimer ==
    /\ isRunning' = FALSE
    /\ UNCHANGED <<watchdogTimer, timers>>

\* startWatchdog (lines 614-625): the activity clock is reset and setInterval
\* creates a timer whose first tick is one interval away.  The field is
\* overwritten without clearing a timer it may still hold.
StartWatchdog ==
    /\ lastActivityTime' = now
    /\ isStuck' = FALSE
    /\ watchdogTimer' = TRUE
    /\ timers' = timers + 1
    /\ nextTick' = now + Granularity
    /\ wdWarnings' = 0
    /\ UNCHANGED <<now, wdLog>>

\* Variant of the finally block that leaves isRunning set.
FinallyLeavesRunning ==
    /\ watchdogTimer' = FALSE
    /\ timers' = IF watchdogTimer THEN timers - 1 ELSE timers
    /\ isRunning' = isRunning

\* stopWatchdog, then isRunning = false: the finally block.
Finally ==
    /\ watchdogTimer' = FALSE
    /\ timers' = IF watchdogTimer THEN timers - 1 ELSE timers
    /\ isRunning' = FALSE

\* Variant of the stop return that throws a cancellation error instead of
\* returning: the call would reject although nothing failed.
ThrowOnStop ==
    /\ Finally
    /\ pc' = "done"
    /\ result' = [kind |-> "rejected", error |-> "cancelled"]

\* `this.isRunning = false; return;` after a loop that saw shouldStop, then the
\* finally block: the call resolves without a final status snapshot.
ReturnOnStop ==
    /\ Finally
    /\ pc' = "done"
    /\ result' = [kind |-> "resolved", error |-> "none"]

\* The outer catch up to its first await: log, publish 'Failed - Attempting
\* cleanup', call cleanupAndConsolidateFunds (which awaits getAllWallets).
EnterCatch(e, st) ==
    /\ error' = e
    /\ status' = [st EXCEPT !.currentStep = "Failed - Attempting cleanup"]
    /\ published' = status'
    /\ pc' = "cleanupGetAll"

\* Variant of the end of the outer catch without the `throw error`: the call
\* would resolve after the sweep.
SwallowAfterCleanup ==
    /\ status' = [status EXCEPT !.currentStep = "Failed", !.isRunning = FALSE]
    /\ published' = status'
    /\ result' = [kind |-> "resolved", error |-> "none"]
    /\ pc' = "done"
    /\ Finally

\* The outer catch after the sweep returned or threw: publish 'Failed' and
\* rethrow the error the catch caught; then the finally block.
RethrowAfterCleanup ==
    /\ status' = [status EXCEPT !.currentStep = "Failed", !.isRunning = FALSE]
    /\ published' = status'
    /\ result' = [kind |-> "rejected", error |-> error]
    /\ pc' = "done"
    /\ Finally

\* Variables a step of the run leaves alone unless it settles the call.
KeepRunning == UNCHANGED <<isRunning, watchdogTimer, timers, result>>

\* A saved Transaction record gets the next id of the store.
NextTxId == Len(txDb) + 1

\* Lines 429-435 and the finally block: the final snapshot, then the call resolves.
Complete(st) ==
    /\ status' = [st EXCEPT !.currentStep = "Completed",
                            !.progress = 100 * (config.numWallets * 4),
                            !.isRunning = FALSE]
    /\ published' = status'
    /\ result' = [kind |-> "resolved", error |-> "none"]
    /\ pc' = "done"
    /\ Finally

\* ------------------------------------------------ phase 5: consolidation
\* Top of the consolidation loop for wallet idx (lines 303-334): the stop check,
\* then getTokenBalance, the dust test and the pending token_transfer record.
ConsolTop(idx, st, pub) ==
    IF idx > Len(wallets) \/ shouldStop
      THEN /\ Complete(st)
           /\ UNCHANGED <<i, txId, error, txDb, walletsDb, faults, h>>
      ELSE /\ KeepRunning
           /\ i' = idx
           /\ status' = st
           /\ published' = pub
           /\ UNCHANGED <<error, walletsDb>>
           /\ \/ \* tokens above the dust threshold: record, then transferToken
                 /\ wallets[idx] \in tokHeld
                 /\ txDb' = Append(txDb, NewTx("token_transfer", wallets[idx], "run"))
                 /\ txId' = NextTxId
                 /\ pc' = "consolTokSubmit"
                 /\ faults' = faults
                 /\ h' = [h EXCEPT !.begun = @ \cup {<<"consolidate", idx>>}]
              \/ \* nothing to transfer: on to the ETH balance
                 /\ wallets[idx] \notin tokHeld
                 /\ pc' = "consolEth"
                 /\ UNCHANGED <<txDb, txId, faults>>
                 /\ h' = [h EXCEPT !.begun = @ \cup {<<"consolidate", idx>>}]
              \/ \* getTokenBalance or saveTransaction throws: the wallet's catch
                 /\ faults < MaxFaults
                 /\ faults' = faults + 1
                 /\ pc' = "consolCatch"
                 /\ UNCHANGED <<txDb, txId>>
                 /\ h' = [h EXCEPT !.begun = @ \cup {<<"consolidate", idx>>},
                                   !.otherFault = TRUE]

\* After the 500 ms delay that ends an iteration: the next loop top.
ConsolNext ==
    /\ pc = "consol"
    /\ ConsolTop(i + 1, status, published)
    /\ UNCHANGED <<shouldStop, config, wallets, cleanupError, allWallets, sweepEth>>
    /\ UNCHANGED <<net, callResult, tbVars, appVars, extraVars, wdVars>>

\* transferToken returns or throws (lines 336-354).
ConsolTokSubmit ==
    /\ pc = "consolTokSubmit"
    /\ chain' = chain \cup {[type |-> "token_transfer", from |-> wallets[i], tx |-> txId, by |-> "run"]}
    /\ \/ /\ tokHeld' = tokHeld \ {wallets[i]}
          /\ pc' = "consolTokUpdate"
          /\ UNCHANGED <<faults, h>>
       \/ /\ faults < MaxFaults
          /\ faults' = faults + 1
          /\ \E landed \in BOOLEAN : tokHeld' = IF landed THEN tokHeld \ {wallets[i]} ELSE tokHeld
          /\ pc' = "consolTokFailed"
          /\ h' = [h EXCEPT !.otherFault = TRUE]
    /\ UNCHANGED <<mgr, i, config, wallets, txId, status, error, cleanupError, allWallets,
                   sweepEth, result, ledger, ethHeld, published, callResult, tbVars, appVars, extraVars, wdVars>>

\* updateTransaction after the token transfer: 'success' after a receipt,
\* 'failed' in the inner catch.  A throw here reaches the wallet's catch.
ConsolTokUpdate ==
    /\ pc \in {"consolTokUpdate", "consolTokFailed"}
    /\ \/ /\ txDb' = UpdateTransaction(txDb, txId,
                        IF pc = "consolTokUpdate" THEN "success" ELSE "failed")
          /\ pc' = "consolEth"
          /\ UNCHANGED <<faults, h>>
       \/ /\ faults < MaxFaults
          /\ faults' = faults + 1
          /\ pc' = "consolCatch"
          /\ h' = [h EXCEPT !.otherFault = TRUE]
          /\ UNCHANGED txDb
    /\ UNCHANGED <<mgr, i, config, wallets, txId, status, error, cleanupError, allWallets,
                   sweepEth, result, walletsDb, net, published, callResult, tbVars, appVars, extraVars, wdVars>>

\* The ETH part (lines 359-388): getBalance, the threshold, getFeeData, the
\* reserve, and the pending eth_transfer record.
ConsolEth ==
    /\ pc = "consolEth"
    /\ \/ /\ wallets[i] \in ethHeld
          /\ txDb' = Append(txDb, NewTx("eth_transfer", wallets[i], "run"))
          /\ txId' = NextTxId
          /\ pc' = "consolEthSubmit"
          /\ UNCHANGED <<faults, h>>
       \/ /\ wallets[i] \notin ethHeld
          /\ pc' = "consolMark"
          /\ UNCHANGED <<txDb, txId, faults, h>>
       \/ /\ faults < MaxFaults
          /\ faults' = faults + 1
          /\ pc' = "consolCatch"
          /\ h' = [h EXCEPT !.otherFault = TRUE]
          /\ UNCHANGED <<txDb, txId>>
    /\ UNCHANGED <<mgr, i, config, wallets, status, error, cleanupError, allWallets,
                   sweepEth, result, walletsDb, net, published, callResult, tbVars, appVars, extraVars, wdVars>>

\* transferETH returns or throws (lines 390-394); a throw is not caught inside
\* the iteration, so the record is left as it is.
ConsolEthSubmit ==
    /\ pc = "consolEthSubmit"
    /\ chain' = chain \cup {[type |-> "eth_transfer", from |-> wallets[i], tx |-> txId, by |-> "run"]}
    /\ \/ /\ ethHeld' = ethHeld \ {wallets[i]}
          /\ pc' = "consolEthUpdate"
          /\ UNCHANGED <<faults, h>>
       \/ /\ faults < MaxFaults
          /\ faults' = faults + 1
          /\ \E landed \in BOOLEAN : ethHeld' = IF landed THEN ethHeld \ {wallets[i]} ELSE ethHeld
          /\ pc' = "consolCatch"
          /\ h' = [h EXCEPT !.otherFault = TRUE]
    /\ UNCHANGED <<mgr, i, config, wallets, txId, status, error, cleanupError, allWallets,
                   sweepEth, result, ledger, tokHeld, published, callResult, tbVars, appVars, extraVars, wdVars>>

\* updateTransaction 'success' after the ETH transfer (lines 396-400).
ConsolEthUpdate ==
    /\ pc = "consolEthUpdate"
    /\ \/ /\ txDb' = UpdateTransaction(txDb, txId, "success")
          /\ pc' = "consolMark"
          /\ UNCHANGED <<faults, h>>
       \/ /\ faults < MaxFaults
          /\ faults' = faults + 1
          /\ pc' = "consolCatch"
          /\ h' = [h EXCEPT !.otherFault = TRUE]
          /\ UNCHANGED txDb
    /\ UNCHANGED <<mgr, i, config, wallets, txId, status, error, cleanupError, allWallets,
                   sweepEth, result, walletsDb, net, published, callResult, tbVars, appVars, extraVars, wdVars>>

\* Variant in which the updateWallet of the consolidation never settles.
ConsolMarkNeverSettles ==
    /\ pc = "consolMark"
    /\ UNCHANGED vars

\* updateWallet 'completed', the counter and the snapshot (lines 408-413).
ConsolMark ==
    /\ pc = "consolMark"
    /\ \/ /\ walletsDb' = UpdateWallet(walletsDb, wallets[i], "completed")
          /\ status' = [status EXCEPT !.tokensTransferred = @ + 1,
                                      !.progress = (config.numWallets * 3 + i) * 100]
          /\ published' = status'
          /\ pc' = "consol"
          /\ faults' = faults
          /\ h' = [h EXCEPT !.touched = @ \cup {wallets[i]}]
       \/ /\ faults < MaxFaults
          /\ faults' = faults + 1
          /\ pc' = "consolCatch"
          /\ h' = [h EXCEPT !.otherFault = TRUE]
          /\ UNCHANGED <<walletsDb, status, published>>
    /\ UNCHANGED <<mgr, i, config, wallets, txId, error, cleanupError, allWallets,
                   sweepEth, result, txDb, net, callResult, tbVars, appVars, extraVars, wdVars>>

\* Variant of the wallet's catch that rethrows: the failure would reach the
\* outer catch and end the loop.
ConsolCatchAborts ==
    /\ pc = "consolCatch"
    /\ EnterCatch("consolidation", status)
    /\ h' = [h EXCEPT !.cleanupStarts = @ + 1]
    /\ UNCHANGED <<mgr, i, config, wallets, txId, cleanupError, allWallets, faults,
                   sweepEth, result, ledger, net, callResult, tbVars, appVars, extraVars, wdVars>>

\* The wallet's catch (lines 415-424): mark it completed anyway; a second
\* failure is only logged.
ConsolCatch ==
    /\ pc = "consolCatch"
    /\ \/ /\ walletsDb' = UpdateWallet(walletsDb, wallets[i], "completed")
          /\ h' = [h EXCEPT !.touched = @ \cup {wallets[i]}]
          /\ faults' = faults
       \/ /\ faults < MaxFaults
          /\ faults' = faults + 1
          /\ h' = [h EXCEPT !.otherFault = TRUE]
          /\ UNCHANGED walletsDb
    /\ pc' = "consol"
    /\ UNCHANGED <<mgr, i, config, wallets, txId, status, error, cleanupError, allWallets,
                   sweepEth, result, txDb, net, published, callResult, tbVars, appVars, extraVars, wdVars>>

\* --------------------------------------------------------- phase 4: swap
\* Top of the swap loop for wallet idx (lines 215-258) and, once the loop is
\* over, the stop check and the start of the consolidation phase (292-301).
SwapTop(idx, st, pub) ==
    IF idx > Len(wallets) \/ shouldStop
      THEN IF shouldStop
             THEN /\ ReturnOnStop
                  /\ status' = st
                  /\ published' = pub
                  /\ UNCHANGED <<i, txId, error, txDb, walletsDb, faults, h>>
             ELSE ConsolTop(1, [st EXCEPT !.currentStep = "Transferring to target"],
                               [st EXCEPT !.currentStep = "Transferring to target"])
      ELSE /\ KeepRunning
           /\ i' = idx
           /\ status' = st
           /\ published' = pub
           /\ UNCHANGED <<error, walletsDb>>
           /\ \/ \* balance above the gas reserve: record, then swap
                 /\ wallets[idx] \in ethHeld
                 /\ txDb' = Append(txDb, NewTx("token_swap", wallets[idx], "run"))
                 /\ txId' = NextTxId
                 /\ pc' = "swapSubmit"
                 /\ faults' = faults
                 /\ h' = [h EXCEPT !.begun = @ \cup {<<"swap", idx>>}]
              \/ \* actualSwapAmount <= 0: log and continue
                 /\ wallets[idx] \notin ethHeld
                 /\ pc' = "swap"
                 /\ UNCHANGED <<txDb, txId, faults>>
                 /\ h' = [h EXCEPT !.begun = @ \cup {<<"swap", idx>>}]
              \/ \* getBalance, getFeeData or saveTransaction throws: logged
                 /\ faults < MaxFaults
                 /\ faults' = faults + 1
                 /\ pc' = "swap"
                 /\ UNCHANGED <<txDb, txId>>
                 /\ h' = [h EXCEPT !.begun = @ \cup {<<"swap", idx>>},
                                   !.otherFault = TRUE]

SwapNext ==
    /\ pc = "swap"
    /\ SwapTop(i + 1, status, published)
    /\ UNCHANGED <<shouldStop, config, wallets, cleanupError, allWallets, sweepEth>>
    /\ UNCHANGED <<net, callResult, tbVars, appVars, extraVars, wdVars>>

\* swapETHToToken returns or throws (lines 260-268, 285-287).
SwapSubmit ==
    /\ pc = "swapSubmit"
    /\ chain' = chain \cup {[type |-> "token_swap", from |-> wallets[i], tx |-> txId, by |-> "run"]}
    /\ \/ /\ tokHeld' = tokHeld \cup {wallets[i]}
          /\ pc' = "swapUpdateTx"
          /\ UNCHANGED <<faults, h>>
       \/ /\ faults < MaxFaults
          /\ faults' = faults + 1
          /\ \E landed \in BOOLEAN : tokHeld' = IF landed THEN tokHeld \cup {wallets[i]} ELSE tokHeld
          /\ pc' = "swap"
          /\ h' = [h EXCEPT !.otherFault = TRUE]
    /\ UNCHANGED <<mgr, i, config, wallets, txId, status, error, cleanupError, allWallets,
                   sweepEth, result, ledger, ethHeld, published, callResult, tbVars, appVars, extraVars, wdVars>>

\* updateTransaction 'success' after the swap (lines 270-275).
SwapUpdateTx ==
    /\ pc = "swapUpdateTx"
    /\ \/ /\ txDb' = UpdateTransaction(txDb, txId, "success")
          /\ pc' = "swapUpdateWallet"
          /\ UNCHANGED <<faults, h>>
       \/ /\ faults < MaxFaults
          /\ faults' = faults + 1
          /\ pc' = "swap"
          /\ h' = [h EXCEPT !.otherFault = TRUE]
          /\ UNCHANGED txDb
    /\ UNCHANGED <<mgr, i, config, wallets, txId, status, error, cleanupError, allWallets,
                   sweepEth, result, walletsDb, net, published, callResult, tbVars, appVars, extraVars, wdVars>>

\* updateWallet 'swapped', the counter and the snapshot (lines 277-284).
SwapUpdateWallet ==
    /\ pc = "swapUpdateWallet"
    /\ \/ /\ walletsDb' = UpdateWallet(walletsDb, wallets[i], "swapped")
          /\ status' = [status EXCEPT !.swapsCompleted = @ + 1,
                                      !.progress = (config.numWallets * 2 + i) * 100]
          /\ published' = status'
          /\ faults' = faults
          /\ h' = [h EXCEPT !.touched = @ \cup {wallets[i]}]
       \/ /\ faults < MaxFaults
          /\ faults' = faults + 1
          /\ h' = [h EXCEPT !.otherFault = TRUE]
          /\ UNCHANGED <<walletsDb, status, published>>
    /\ pc' = "swap"
    /\ UNCHANGED <<mgr, i, config, wallets, txId, error, cleanupError, allWallets,
                   sweepEth, result, txDb, net, callResult, tbVars, appVars, extraVars, wdVars>>

\* --------------------------------------------------------- phase 3: fund
\* Top of the funding loop for wallet idx (lines 152-172) and, once the loop is
\* over, the stop check and the start of the swap phase (204-213).  A throw of
\* saveTransaction lands in the iteration's catch, which awaits updateWallet.
FundTop(idx, st, pub) ==
    IF idx > Len(wallets) \/ shouldStop
      THEN IF shouldStop
             THEN /\ ReturnOnStop
                  /\ status' = st
                  /\ published' = pub
                  /\ UNCHANGED <<i, txId, error, txDb, walletsDb, faults, h>>
             ELSE SwapTop(1, [st EXCEPT !.currentStep = "Swapping tokens"],
                             [st EXCEPT !.currentStep = "Swapping tokens"])
      ELSE /\ KeepRunning
           /\ i' = idx
           /\ status' = st
           /\ published' = pub
           /\ UNCHANGED <<error, walletsDb>>
           /\ \/ /\ txDb' = Append(txDb, NewTx("fund_transfer", wallets[idx], "run"))
                 /\ txId' = NextTxId
                 /\ pc' = "fundTransfer"
                 /\ faults' = faults
                 /\ h' = [h EXCEPT !.begun = @ \cup {<<"fund", idx>>}]
              \/ /\ faults < MaxFaults
                 /\ faults' = faults + 1
                 /\ pc' = "fundCatch"
                 /\ UNCHANGED <<txDb, txId>>
                 /\ h' = [h EXCEPT !.begun = @ \cup {<<"fund", idx>>},
                                   !.otherFault = TRUE]

FundNext ==
    /\ pc = "fund"
    /\ FundTop(i + 1, status, published)
    /\ UNCHANGED <<shouldStop, config, wallets, cleanupError, allWallets, sweepEth>>
    /\ UNCHANGED <<net, callResult, tbVars, appVars, extraVars, wdVars>>

\* transferETH from the master wallet returns or throws (lines 174-179).
FundTransfer ==
    /\ pc = "fundTransfer"
    /\ chain' = chain \cup {[type |-> "fund_transfer", from |-> 0, tx |-> txId, by |-> "run"]}
    /\ \/ /\ ethHeld' = ethHeld \cup {wallets[i]}
          /\ pc' = "fundUpdateTx"
          /\ UNCHANGED <<faults, h>>
       \/ /\ faults < MaxFaults
          /\ faults' = faults + 1
          /\ \E landed \in BOOLEAN : ethHeld' = IF landed THEN ethHeld \cup {wallets[i]} ELSE ethHeld
          /\ pc' = "fundCatch"
          /\ h' = [h EXCEPT !.fundThrew = @ \cup {i}]
    /\ UNCHANGED <<mgr, i, config, wallets, txId, status, error, cleanupError, allWallets,
                   sweepEth, result, ledger, tokHeld, published, callResult, tbVars, appVars, extraVars, wdVars>>

\* updateTransaction 'success' after the funding transfer (lines 181-186).
FundUpdateTx ==
    /\ pc = "fundUpdateTx"
    /\ \/ /\ txDb' = UpdateTransaction(txDb, txId, "success")
          /\ pc' = "fundUpdateWallet"
          /\ UNCHANGED <<faults, h>>
       \/ /\ faults < MaxFaults
          /\ faults' = faults + 1
          /\ pc' = "fundCatch"
          /\ h' = [h EXCEPT !.otherFault = TRUE]
          /\ UNCHANGED txDb
    /\ UNCHANGED <<mgr, i, config, wallets, txId, status, error, cleanupError, allWallets,
                   sweepEth, result, walletsDb, net, published, callResult, tbVars, appVars, extraVars, wdVars>>

\* updateWallet 'funded', the counter and the snapshot (lines 188-195).
FundUpdateWallet ==
    /\ pc = "fundUpdateWallet"
    /\ \/ /\ walletsDb' = UpdateWallet(walletsDb, wallets[i], "funded")
          /\ status' = [status EXCEPT !.ethTransferred = @ + 1,
                                      !.progress = (config.numWallets + i) * 100]
          /\ published' = status'
          /\ pc' = "fund"
          /\ faults' = faults
          /\ h' = [h EXCEPT !.touched = @ \cup {wallets[i]}]
       \/ /\ faults < MaxFaults
          /\ faults' = faults + 1
          /\ pc' = "fundCatch"
          /\ h' = [h EXCEPT !.otherFault = TRUE]
          /\ UNCHANGED <<walletsDb, status, published>>
    /\ UNCHANGED <<mgr, i, config, wallets, txId, error, cleanupError, allWallets,
                   sweepEth, result, txDb, net, callResult, tbVars, appVars, extraVars, wdVars>>

\* Variant of the funding catch that rethrows instead of resetting the wallet:
\* one failed funding transfer would abort the run.
FundCatchAborts ==
    /\ pc = "fundCatch"
    /\ EnterCatch("fundTransfer", status)
    /\ h' = [h EXCEPT !.cleanupStarts = @ + 1]
    /\ UNCHANGED <<mgr, i, config, wallets, txId, cleanupError, allWallets,
                   sweepEth, result, ledger, net, callResult, tbVars, faults, appVars, extraVars, wdVars>>

\* The funding catch (lines 196-199): log, then updateWallet 'created'.  This
\* await is outside any per-wallet try: its throw reaches the outer catch.
FundCatch ==
    /\ pc = "fundCatch"
    /\ \/ /\ walletsDb' = UpdateWallet(walletsDb, wallets[i], "created")
          /\ pc' = "fund"
          /\ faults' = faults
          /\ h' = [h EXCEPT !.touched = @ \cup {wallets[i]}]
          /\ UNCHANGED <<status, published, error>>
       \/ /\ faults < MaxFaults
          /\ faults' = faults + 1
          /\ EnterCatch("updateWallet", status)
          /\ h' = [h EXCEPT !.otherFault = TRUE, !.cleanupStarts = @ + 1]
          /\ UNCHANGED walletsDb
    /\ UNCHANGED <<mgr, i, config, wallets, txId, cleanupError, allWallets,
                   sweepEth, result, txDb, net, callResult, tbVars, appVars, extraVars, wdVars>>

\* ------------------------------------------------------- phase 2: create
\* Top of the creation loop for wallet idx (lines 119-125): the stop check and
\* createWallet (key generation and encryption); once the loop is over, the
\* stop check and the start of the funding phase (141-150).
CreateTop(idx, st, pub) ==
    IF idx > config.numWallets \/ shouldStop
      THEN IF shouldStop
             THEN /\ ReturnOnStop
                  /\ status' = st
                  /\ published' = pub
                  /\ UNCHANGED <<i, txId, error, txDb, walletsDb, faults, h>>
             ELSE FundTop(1, [st EXCEPT !.currentStep = "Funding wallets"],
                             [st EXCEPT !.currentStep = "Funding wallets"])
      ELSE /\ UNCHANGED <<isRunning, watchdogTimer, timers, result>>
           /\ i' = idx
           /\ UNCHANGED <<txId, txDb, walletsDb>>
           /\ \/ /\ pc' = "saveWallet"
                 /\ status' = st
                 /\ published' = pub
                 /\ UNCHANGED <<error, faults>>
                 /\ h' = [h EXCEPT !.begun = @ \cup {<<"create", idx>>},
                                   !.generated = @ + 1]
              \/ /\ faults < MaxFaults
                 /\ faults' = faults + 1
                 /\ EnterCatch("createWallet", st)
                 /\ h' = [h EXCEPT !.begun = @ \cup {<<"create", idx>>},
                                   !.otherFault = TRUE, !.cleanupStarts = @ + 1]

CreateNext ==
    /\ pc = "create"
    /\ CreateTop(i + 1, status, published)
    /\ UNCHANGED <<shouldStop, config, wallets, cleanupError, allWallets, sweepEth>>
    /\ UNCHANGED <<net, callResult, tbVars, appVars, extraVars, wdVars>>

\* Variant without the barrier: a wallet is funded as soon as it is saved
\* (a per-wallet pipeline), before the next wallet is created.
SaveWalletPipelined ==
    /\ pc = "saveWallet"
    /\ \/ /\ walletsDb' = Append(walletsDb, NewWalletInfo)
          /\ wallets' = Append(wallets, Len(walletsDb) + 1)
          /\ status' = [status EXCEPT !.walletsCreated = @ + 1, !.progress = i * 100]
          /\ published' = status'
          /\ pc' = "fund"
          /\ i' = i - 1
          /\ UNCHANGED <<error, faults, h>>
       \/ /\ faults < MaxFaults
          /\ faults' = faults + 1
          /\ EnterCatch("saveWallet", status)
          /\ h' = [h EXCEPT !.otherFault = TRUE, !.cleanupStarts = @ + 1]
          /\ UNCHANGED <<walletsDb, wallets, i>>
    /\ UNCHANGED <<mgr, config, txId, cleanupError, allWallets,
                   sweepEth, result, txDb, net, callResult, tbVars, appVars, extraVars, wdVars>>

\* Variant that does not wait for the record: the loop goes on to the next
\* wallet with nothing written.
SaveWalletNotAwaited ==
    /\ pc = "saveWallet"
    /\ pc' = "create"
    /\ status' = [status EXCEPT !.walletsCreated = @ + 1, !.progress = i * 100]
    /\ published' = status'
    /\ UNCHANGED <<error, faults, h, walletsDb, wallets>>
    /\ UNCHANGED <<mgr, i, config, txId, cleanupError, allWallets,
                   sweepEth, result, txDb, net, callResult, tbVars, appVars, extraVars, wdVars>>

\* saveWallet, wallets.push, the counter and the snapshot (lines 126-138).
SaveWallet ==
    /\ pc = "saveWallet"
    /\ \/ /\ walletsDb' = Append(walletsDb, NewWalletInfo)
          /\ wallets' = Append(wallets, Len(walletsDb) + 1)
          /\ status' = [status EXCEPT !.walletsCreated = @ + 1, !.progress = i * 100]
          /\ published' = status'
          /\ pc' = "create"
          /\ UNCHANGED <<error, faults, h>>
       \/ /\ faults < MaxFaults
          /\ faults' = faults + 1
          /\ EnterCatch("saveWallet", status)
          /\ h' = [h EXCEPT !.otherFault = TRUE, !.cleanupStarts = @ + 1]
          /\ UNCHANGED <<walletsDb, wallets>>
    /\ UNCHANGED <<mgr, i, config, txId, cleanupError, allWallets,
                   sweepEth, result, txDb, net, callResult, tbVars, appVars, extraVars, wdVars>>

\* The amounts of the configurations tried (gasAmount, minPurchaseAmount and
\* maxPurchaseAmount, as parseFloat reads them), and the balances getBalance
\* can return for the master wallet: one unit short of, or exactly, what
\* numWallets wallets need for gas and the minimum purchase.
ConfigAmounts == [gasAmount |-> 1, minPurchase |-> 1, maxPurchase |-> 2]
MasterBalances(numWallets) ==
    LET needed == numWallets * (ConfigAmounts.gasAmount + ConfigAmounts.minPurchase)
    IN  {needed - 1, needed}

\* Lines 79-86: what is left of `balance` for purchases once the gas of
\* numWallets wallets is set aside.
TotalGasNeeded(numWallets) == FlMul(ConfigAmounts.gasAmount, numWallets)
AvailableForPurchases(balance, numWallets) ==
    FlSub(Fl(balance), TotalGasNeeded(numWallets))

\* Lines 93-109 for one outcome of generateRandomAllocations: its throw, or
\* the throw of the total check.
PlanningThrows(outcome, balance, numWallets) ==
    \/ outcome.kind = "thrown"
    \/ FlAdd(TotalGasNeeded(numWallets), Reduce(outcome.allocations)) > Fl(balance)

PlanOutcomes(balance, numWallets) ==
    generateRandomAllocations(numWallets, AvailableForPurchases(balance, numWallets),
                              ConfigAmounts.minPurchase, ConfigAmounts.maxPurchase)

\* Variant that starts creating wallets without planning the allocation.
LoadMasterUnplanned ==
    /\ pc = "load"
    /\ \E balance \in MasterBalances(config.numWallets) :
          /\ masterBalance' = balance
          /\ CreateTop(1, [status EXCEPT !.currentStep = "Creating wallets"],
                          [status EXCEPT !.currentStep = "Creating wallets"])
    /\ UNCHANGED <<shouldStop, config, wallets, cleanupError, allWallets, sweepEth>>
    /\ UNCHANGED <<net, callResult, tbVars, appVars, configDb, pureVars, wdVars>>

\* getBalance of the master wallet returns or throws; the allocation is planned
\* (generateRandomAllocations and the total check, lines 74-109), 'Creating
\* wallets' is published and the creation loop starts (lines 111-125).
LoadMaster ==
    /\ pc = "load"
    /\ \/ /\ faults < MaxFaults
          /\ faults' = faults + 1
          /\ EnterCatch("getBalance", status)
          /\ h' = [h EXCEPT !.otherFault = TRUE, !.cleanupStarts = @ + 1]
          /\ UNCHANGED <<isRunning, watchdogTimer, timers, result, i, txId, txDb, walletsDb,
                         masterBalance>>
       \/ \E balance \in MasterBalances(config.numWallets) :
             /\ masterBalance' = balance
             /\ \E outcome \in PlanOutcomes(balance, config.numWallets) :
                   PlanningThrows(outcome, balance, config.numWallets)
             /\ EnterCatch("insufficient", status)
             /\ h' = [h EXCEPT !.cleanupStarts = @ + 1]
             /\ UNCHANGED <<isRunning, watchdogTimer, timers, result, i, txId, txDb, walletsDb,
                            faults>>
       \/ \E balance \in MasterBalances(config.numWallets) :
             /\ masterBalance' = balance
             /\ \E outcome \in PlanOutcomes(balance, config.numWallets) :
                   ~PlanningThrows(outcome, balance, config.numWallets)
             /\ CreateTop(1, [status EXCEPT !.currentStep = "Creating wallets"],
                             [status EXCEPT !.currentStep = "Creating wallets"])
    /\ UNCHANGED <<shouldStop, config, wallets, cleanupError, allWallets, sweepEth>>
    /\ UNCHANGED <<net, callResult, tbVars, appVars, configDb, pureVars, wdVars>>

\* -------------------------------------------------------- executeOperation
\* Variant of the accepted call that leaves the cancellation flag as the last
\* run left it.
AcceptCallKeepsStop(hist) ==
    /\ ~isRunning
    /\ pc \in {"idle", "done"}
    /\ \E n \in 1..MaxWallets, kind \in {"valid", "invalid", "badKey"} :
          /\ config' = [numWallets |-> n, kind |-> kind]
          /\ isRunning' = TRUE
          /\ UNCHANGED shouldStop
          /\ StartWatchdog
          /\ IF kind = "valid"
               THEN /\ status' = [InitialStatus EXCEPT !.currentStep = "Configuration validated"]
                    /\ published' = status'
                    /\ pc' = "load"
                    /\ error' = "none"
                    /\ h' = hist
               ELSE /\ EnterCatch(IF kind = "invalid" THEN "config" ELSE "masterKey",
                                  InitialStatus)
                    /\ h' = [hist EXCEPT !.cleanupStarts = @ + 1]
    /\ i' = 0
    /\ wallets' = <<>>
    /\ txId' = 0
    /\ cleanupError' = "none"
    /\ allWallets' = <<>>
    /\ sweepEth' = FALSE
    /\ result' = NoResult
    /\ UNCHANGED <<ledger, net, callResult, tbVars, faults, appVars, extraVars>>

\* An accepted call, from the guard to the first await (getBalance of the master
\* wallet): set the flags, start the watchdog, validate, load the master wallet.
AcceptCall(hist) ==
    /\ ~isRunning
    /\ pc \in {"idle", "done"}
    /\ \E n \in 1..MaxWallets, kind \in {"valid", "invalid", "badKey"} :
          /\ config' = [numWallets |-> n, kind |-> kind]
          /\ isRunning' = TRUE
          /\ shouldStop' = FALSE
          /\ StartWatchdog
          /\ IF kind = "valid"
               THEN /\ status' = [InitialStatus EXCEPT !.currentStep = "Configuration validated"]
                    /\ published' = status'
                    /\ pc' = "load"
                    /\ error' = "none"
                    /\ h' = hist
               ELSE /\ EnterCatch(IF kind = "invalid" THEN "config" ELSE "masterKey",
                                  InitialStatus)
                    /\ h' = [hist EXCEPT !.cleanupStarts = @ + 1]
    /\ i' = 0
    /\ wallets' = <<>>
    /\ txId' = 0
    /\ cleanupError' = "none"
    /\ allWallets' = <<>>
    /\ sweepEth' = FALSE
    /\ result' = NoResult
    /\ UNCHANGED <<ledger, net, callResult, tbVars, faults, appVars, extraVars>>

\* executeOperation, the history carried on.
ExecuteOperation == AcceptCall(h)

\* The same call where calls follow one another: the history starts afresh.
ExecuteOperationAgain ==
    /\ h.runs < MaxRuns
    /\ AcceptCall(RunHistory)

\* Variant with the guard placed inside the try: the finally block of the
\* rejected call would run, stopping the watchdog and clearing isRunning.
RejectedInsideTry ==
    /\ isRunning
    /\ callResult' = "rejected"
    /\ Finally
    /\ UNCHANGED <<shouldStop, frame, ledger, net, published, tbVars, faults, h, appVars, extraVars, wdVars>>

\* A call made while isRunning is set: `throw new Error('Operation is already
\* running')` before the try, so neither the catch nor the finally of this
\* call runs.
ExecuteOperationRejected ==
    /\ isRunning
    /\ callResult' = "rejected"
    /\ UNCHANGED <<mgr, frame, ledger, net, published, tbVars, faults, h, appVars, extraVars, wdVars>>

\* stopOperation (lines 604-609): sets the flag only while an operation runs.
StopOperation ==
    /\ IF isRunning
         THEN /\ shouldStop' = TRUE
              /\ h' = [h EXCEPT !.stopPhase = IF @ = "none" THEN PhaseOf(pc) ELSE @]
         ELSE UNCHANGED <<shouldStop, h>>
    /\ UNCHANGED <<isRunning, watchdogTimer, timers, frame, ledger, net, published,
                   callResult, tbVars, faults, appVars, extraVars, wdVars>>

\* ------------------------------------------- cleanupAndConsolidateFunds
\* Top of the sweep loop for record k of the snapshot (lines 474-523): a
\* completed record is skipped; otherwise loadWallet, the two balance reads
\* and, when tokens are held, the pending token_transfer record.  The loop
\* does not look at shouldStop.  After the last record the sweep returns and
\* the outer catch rethrows.
SweepTop(k, all) ==
    IF k > Len(all)
      THEN /\ RethrowAfterCleanup
           /\ UNCHANGED <<i, txId, txDb, sweepEth, faults, h>>
      ELSE /\ KeepRunning
           /\ i' = k
           /\ UNCHANGED <<status, published>>
           /\ IF all[k] = "completed"
                THEN /\ pc' = "cleanup"
                     /\ UNCHANGED <<txId, txDb, sweepEth, faults, h>>
                ELSE \/ \* tokens held: record, then transferToken
                        /\ k \in tokHeld
                        /\ sweepEth' = (k \in ethHeld)
                        /\ txDb' = Append(txDb, NewTx("token_transfer", k, "sweep"))
                        /\ txId' = NextTxId
                        /\ pc' = "cleanTokSubmit"
                        /\ faults' = faults
                        /\ h' = [h EXCEPT !.begun = @ \cup {<<"sweep", k>>}]
                     \/ \* no tokens, or getTokenBalance or saveTransaction
                        \* threw (both only logged): on to the ETH part
                        /\ \/ k \notin tokHeld /\ faults' = faults
                           \/ faults < MaxFaults /\ faults' = faults + 1
                        /\ sweepEth' = (k \in ethHeld)
                        /\ pc' = "cleanEth"
                        /\ UNCHANGED <<txId, txDb>>
                        /\ h' = [h EXCEPT !.begun = @ \cup {<<"sweep", k>>}]
                     \/ \* loadWallet or getBalance throws: the record's catch
                        /\ faults < MaxFaults
                        /\ faults' = faults + 1
                        /\ pc' = "cleanup"
                        /\ UNCHANGED <<txId, txDb, sweepEth>>
                        /\ h' = [h EXCEPT !.begun = @ \cup {<<"sweep", k>>}]

\* getAllWallets returns the snapshot the sweep iterates over (an empty one
\* ends the sweep at once), or throws: the outer catch logs 'Cleanup failed'.
\* Either way the outer catch then rethrows the original error.
CleanupGetAll ==
    /\ pc = "cleanupGetAll"
    /\ \/ /\ allWallets' = [j \in 1..Len(walletsDb) |-> walletsDb[j].status]
          /\ SweepTop(1, [j \in 1..Len(walletsDb) |-> walletsDb[j].status])
          /\ UNCHANGED cleanupError
       \/ /\ faults < MaxFaults
          /\ faults' = faults + 1
          /\ cleanupError' = "getAllWallets"
          /\ RethrowAfterCleanup
          /\ UNCHANGED <<allWallets, i, txId, txDb, sweepEth, h>>
    /\ UNCHANGED <<shouldStop, config, wallets, error, walletsDb, net, callResult,
                   tbVars, appVars, extraVars, wdVars>>

\* After the 500 ms delay that ends an iteration, or after `continue`.
SweepNext ==
    /\ pc = "cleanup"
    /\ SweepTop(i + 1, allWallets)
    /\ UNCHANGED <<shouldStop, config, wallets, error, cleanupError, allWallets, walletsDb>>
    /\ UNCHANGED <<net, callResult, tbVars, appVars, extraVars, wdVars>>

\* transferToken of the sweep returns or throws (lines 525-541); the catch
\* only logs, the record is left as it is.
CleanTokSubmit ==
    /\ pc = "cleanTokSubmit"
    /\ chain' = chain \cup {[type |-> "token_transfer", from |-> i, tx |-> txId, by |-> "sweep"]}
    /\ \/ /\ tokHeld' = tokHeld \ {i}
          /\ pc' = "cleanTokUpdate"
          /\ faults' = faults
       \/ /\ faults < MaxFaults
          /\ faults' = faults + 1
          /\ \E landed \in BOOLEAN : tokHeld' = IF landed THEN tokHeld \ {i} ELSE tokHeld
          /\ pc' = "cleanEth"
    /\ UNCHANGED <<mgr, i, config, wallets, txId, status, error, cleanupError, allWallets,
                   sweepEth, result, ledger, ethHeld, published, callResult, tbVars, h, appVars, extraVars, wdVars>>

\* updateTransaction 'success' (lines 532-536); a throw is only logged.
CleanTokUpdate ==
    /\ pc = "cleanTokUpdate"
    /\ \/ /\ txDb' = UpdateTransaction(txDb, txId, "success")
          /\ faults' = faults
       \/ /\ faults < MaxFaults
          /\ faults' = faults + 1
          /\ UNCHANGED txDb
    /\ pc' = "cleanEth"
    /\ UNCHANGED <<mgr, i, config, wallets, txId, status, error, cleanupError, allWallets,
                   sweepEth, result, walletsDb, net, published, callResult, tbVars, h, appVars, extraVars, wdVars>>

\* Variant of the ETH part of the sweep in which a failed saveTransaction does
\* not stop the transfer: transferETH would be called with no record of its own.
CleanEthUnrecorded ==
    /\ pc = "cleanEth"
    /\ \/ /\ sweepEth
          /\ txDb' = Append(txDb, NewTx("eth_transfer", i, "sweep"))
          /\ txId' = NextTxId
          /\ pc' = "cleanEthSubmit"
          /\ faults' = faults
       \/ /\ sweepEth
          /\ faults < MaxFaults
          /\ faults' = faults + 1
          /\ pc' = "cleanEthSubmit"
          /\ UNCHANGED <<txDb, txId>>
       \/ /\ ~sweepEth
          /\ pc' = "cleanMark"
          /\ UNCHANGED <<txDb, txId, faults>>
    /\ UNCHANGED <<mgr, i, config, wallets, status, error, cleanupError, allWallets,
                   sweepEth, result, walletsDb, net, published, callResult, tbVars, h, appVars, extraVars, wdVars>>

\* The ETH part of the sweep (lines 545-564), decided on the balance read at
\* the top of the iteration: the pending eth_transfer record, or nothing.
CleanEth ==
    /\ pc = "cleanEth"
    /\ \/ /\ sweepEth
          /\ txDb' = Append(txDb, NewTx("eth_transfer", i, "sweep"))
          /\ txId' = NextTxId
          /\ pc' = "cleanEthSubmit"
          /\ faults' = faults
       \/ /\ sweepEth
          /\ faults < MaxFaults
          /\ faults' = faults + 1
          /\ pc' = "cleanMark"
          /\ UNCHANGED <<txDb, txId>>
       \/ /\ ~sweepEth
          /\ pc' = "cleanMark"
          /\ UNCHANGED <<txDb, txId, faults>>
    /\ UNCHANGED <<mgr, i, config, wallets, status, error, cleanupError, allWallets,
                   sweepEth, result, walletsDb, net, published, callResult, tbVars, h, appVars, extraVars, wdVars>>

\* transferETH of the sweep returns or throws (lines 566-581).
CleanEthSubmit ==
    /\ pc = "cleanEthSubmit"
    /\ chain' = chain \cup {[type |-> "eth_transfer", from |-> i, tx |-> txId, by |-> "sweep"]}
    /\ \/ /\ ethHeld' = ethHeld \ {i}
          /\ pc' = "cleanEthUpdate"
          /\ faults' = faults
       \/ /\ faults < MaxFaults
          /\ faults' = faults + 1
          /\ \E landed \in BOOLEAN : ethHeld' = IF landed THEN ethHeld \ {i} ELSE ethHeld
          /\ pc' = "cleanMark"
    /\ UNCHANGED <<mgr, i, config, wallets, txId, status, error, cleanupError, allWallets,
                   sweepEth, result, ledger, tokHeld, published, callResult, tbVars, h, appVars, extraVars, wdVars>>

\* updateTransaction 'success' (lines 572-576); a throw is only logged.
CleanEthUpdate ==
    /\ pc = "cleanEthUpdate"
    /\ \/ /\ txDb' = UpdateTransaction(txDb, txId, "success")
          /\ faults' = faults
       \/ /\ faults < MaxFaults
          /\ faults' = faults + 1
          /\ UNCHANGED txDb
    /\ pc' = "cleanMark"
    /\ UNCHANGED <<mgr, i, config, wallets, txId, status, error, cleanupError, allWallets,
                   sweepEth, result, walletsDb, net, published, callResult, tbVars, h, appVars, extraVars, wdVars>>

\* updateWallet 'completed' (lines 586-593); a throw is only logged.
CleanMark ==
    /\ pc = "cleanMark"
    /\ \/ /\ walletsDb' = UpdateWallet(walletsDb, i, "completed")
          /\ h' = [h EXCEPT !.touched = @ \cup {i}]
          /\ faults' = faults
       \/ /\ faults < MaxFaults
          /\ faults' = faults + 1
          /\ UNCHANGED <<walletsDb, h>>
    /\ pc' = "cleanup"
    /\ UNCHANGED <<mgr, i, config, wallets, txId, status, error, cleanupError, allWallets,
                   sweepEth, result, txDb, net, published, callResult, tbVars, appVars, extraVars, wdVars>>

\* ------------------------------------------------ transferBackFromWallet
\* Calls follow one another.  A call up to its first write (lines 763-802):
\* getWallet, loadWallet, getConfig, getTokenBalance, the dust test and the
\* pending token_transfer record.  Id Len(walletsDb) + 1 is a missing wallet.
TransferBackFromWallet ==
    /\ tbPc \in {"idle", "done"}
    /\ tbError' = "none"
    /\ \E w \in 1..(Len(walletsDb) + 1) :
          /\ tbWallet' = w
          /\ tbInitial' = IF w \in 1..Len(walletsDb)
                            THEN [status |-> walletsDb[w].status,
                                  funds |-> w \in (tokHeld \cup ethHeld)]
                            ELSE NoWallet
          /\ \/ /\ w \in 1..Len(walletsDb)
                /\ w \in tokHeld
                /\ txDb' = Append(txDb, NewTx("token_transfer", w, "back"))
                /\ tbTxId' = NextTxId
                /\ tbPc' = "tbTokSubmit"
                /\ faults' = faults
             \/ /\ w \in 1..Len(walletsDb)
                /\ w \notin tokHeld
                /\ tbPc' = "tbEth"
                /\ UNCHANGED <<txDb, tbTxId, faults>>
             \/ \* 'Wallet not found'
                /\ w \notin 1..Len(walletsDb)
                /\ tbPc' = "tbCatch"
                /\ UNCHANGED <<txDb, tbTxId, faults>>
             \/ \* a collaborator throws, or no configuration is stored
                /\ w \in 1..Len(walletsDb)
                /\ faults < MaxFaults
                /\ faults' = faults + 1
                /\ tbPc' = "tbCatch"
                /\ UNCHANGED <<txDb, tbTxId>>
    /\ UNCHANGED <<mgr, frame, walletsDb, net, published, callResult, h, appVars, extraVars, wdVars>>

\* transferToken returns or throws (lines 804-822).
TbTokSubmit ==
    /\ tbPc = "tbTokSubmit"
    /\ chain' = chain \cup {[type |-> "token_transfer", from |-> tbWallet, tx |-> tbTxId, by |-> "back"]}
    /\ \/ /\ tokHeld' = tokHeld \ {tbWallet}
          /\ tbPc' = "tbTokUpdate"
          /\ faults' = faults
       \/ /\ faults < MaxFaults
          /\ faults' = faults + 1
          /\ \E landed \in BOOLEAN : tokHeld' = IF landed THEN tokHeld \ {tbWallet} ELSE tokHeld
          /\ tbPc' = "tbTokFailed"
    /\ UNCHANGED <<mgr, frame, ledger, ethHeld, published, callResult, tbWallet, tbInitial, tbTxId,
                   tbError, h, appVars, extraVars, wdVars>>

\* updateTransaction 'success' or, in the inner catch, 'failed'.
TbTokUpdate ==
    /\ tbPc \in {"tbTokUpdate", "tbTokFailed"}
    /\ \/ /\ txDb' = UpdateTransaction(txDb, tbTxId,
                        IF tbPc = "tbTokUpdate" THEN "success" ELSE "failed")
          /\ tbPc' = "tbEth"
          /\ faults' = faults
       \/ /\ faults < MaxFaults
          /\ faults' = faults + 1
          /\ tbPc' = "tbCatch"
          /\ UNCHANGED txDb
    /\ UNCHANGED <<mgr, frame, walletsDb, net, published, callResult, tbWallet, tbInitial, tbTxId,
                   tbError, h, appVars, extraVars, wdVars>>

\* Variant of the ETH part without the balance threshold: an eth_transfer
\* record would be saved for a wallet that holds nothing.
TbEthNoThreshold ==
    /\ tbPc = "tbEth"
    /\ txDb' = Append(txDb, NewTx("eth_transfer", tbWallet, "back"))
    /\ tbTxId' = NextTxId
    /\ tbPc' = "tbEthSubmit"
    /\ UNCHANGED <<mgr, frame, walletsDb, net, published, callResult, tbWallet, tbInitial,
                   tbError, faults, h, appVars, extraVars, wdVars>>

\* The ETH part (lines 827-862): getBalance, the threshold, getFeeData, the
\* reserve, and the pending eth_transfer record.
TbEth ==
    /\ tbPc = "tbEth"
    /\ \/ /\ tbWallet \in ethHeld
          /\ txDb' = Append(txDb, NewTx("eth_transfer", tbWallet, "back"))
          /\ tbTxId' = NextTxId
          /\ tbPc' = "tbEthSubmit"
          /\ faults' = faults
       \/ /\ tbWallet \notin ethHeld
          /\ tbPc' = "tbMark"
          /\ UNCHANGED <<txDb, tbTxId, faults>>
       \/ /\ faults < MaxFaults
          /\ faults' = faults + 1
          /\ tbPc' = "tbCatch"
          /\ UNCHANGED <<txDb, tbTxId>>
    /\ UNCHANGED <<mgr, frame, walletsDb, net, published, callResult, tbWallet, tbInitial,
                   tbError, h, appVars, extraVars, wdVars>>

\* transferETH returns or throws (lines 864-881).
TbEthSubmit ==
    /\ tbPc = "tbEthSubmit"
    /\ chain' = chain \cup {[type |-> "eth_transfer", from |-> tbWallet, tx |-> tbTxId, by |-> "back"]}
    /\ \/ /\ ethHeld' = ethHeld \ {tbWallet}
          /\ tbPc' = "tbEthUpdate"
          /\ faults' = faults
       \/ /\ faults < MaxFaults
          /\ faults' = faults + 1
          /\ \E landed \in BOOLEAN : ethHeld' = IF landed THEN ethHeld \ {tbWallet} ELSE ethHeld
          /\ tbPc' = "tbEthFailed"
    /\ UNCHANGED <<mgr, frame, ledger, tokHeld, published, callResult, tbWallet, tbInitial, tbTxId,
                   tbError, h, appVars, extraVars, wdVars>>

\* updateTransaction 'success' or, in the inner catch, 'failed'.
TbEthUpdate ==
    /\ tbPc \in {"tbEthUpdate", "tbEthFailed"}
    /\ \/ /\ txDb' = UpdateTransaction(txDb, tbTxId,
                        IF tbPc = "tbEthUpdate" THEN "success" ELSE "failed")
          /\ tbPc' = "tbMark"
          /\ faults' = faults
       \/ /\ faults < MaxFaults
          /\ faults' = faults + 1
          /\ tbPc' = "tbCatch"
          /\ UNCHANGED txDb
    /\ UNCHANGED <<mgr, frame, walletsDb, net, published, callResult, tbWallet, tbInitial, tbTxId,
                   tbError, h, appVars, extraVars, wdVars>>

\* updateWallet 'completed' regardless of the transfers (lines 889-891).
TbMark ==
    /\ tbPc = "tbMark"
    /\ \/ /\ walletsDb' = UpdateWallet(walletsDb, tbWallet, "completed")
          /\ tbPc' = "done"
          /\ faults' = faults
       \/ /\ faults < MaxFaults
          /\ faults' = faults + 1
          /\ tbPc' = "tbCatch"
          /\ UNCHANGED walletsDb
    /\ UNCHANGED <<mgr, frame, txDb, net, published, callResult, tbWallet, tbInitial, tbTxId,
                   tbError, h, appVars, extraVars, wdVars>>

\* The catch (lines 893-905): updateWallet 'completed' (its failure, as for a
\* missing wallet, is only logged), then the error is rethrown.
TbCatch ==
    /\ tbPc = "tbCatch"
    /\ \/ /\ tbWallet \in 1..Len(walletsDb)
          /\ walletsDb' = UpdateWallet(walletsDb, tbWallet, "completed")
          /\ faults' = faults
       \/ /\ tbWallet \notin 1..Len(walletsDb)
          /\ UNCHANGED <<walletsDb, faults>>
       \/ /\ tbWallet \in 1..Len(walletsDb)
          /\ faults < MaxFaults
          /\ faults' = faults + 1
          /\ UNCHANGED walletsDb
    /\ tbPc' = "done"
    /\ tbError' = "thrown"
    /\ UNCHANGED <<mgr, frame, txDb, net, published, callResult, tbWallet, tbInitial, tbTxId,
                   h, appVars, extraVars, wdVars>>

\* ------------------------------------------------------------------ App
\* Start requests are numbered in the order the submit events arrive; request
\* r builds its own TransactionManager, whose flags are mgrRunning[r] and
\* mgrStop[r].  A submit event can arrive only while the start button is
\* enabled (UIManager.setOperationRunning disables it and the form's inputs).
NextRequest(r) == reqPc[r] = "none" /\ \A q \in 1..(r - 1) : reqPc[q] # "none"

\* handleUnlock with a correct password.
HandleUnlock ==
    /\ ~isUnlocked
    /\ isUnlocked' = TRUE
    /\ UNCHANGED <<startDisabled, transactionManager, reqPc, mgrRunning, mgrStop, tmVars, extraVars>>

\* handleStartOperation up to `await this.database.saveConfig(config)`: the
\* unlock check (error shown, return) and App.validateConfig, whose throw
\* reaches the catch and the finally (setOperationRunning(false)).
HandleStartOperation ==
    /\ ~startDisabled
    /\ \E r \in 1..MaxRequests :
          /\ NextRequest(r)
          /\ \/ /\ ~isUnlocked
                /\ reqPc' = [reqPc EXCEPT ![r] = "done"]
                /\ UNCHANGED startDisabled
             \/ /\ isUnlocked
                /\ reqPc' = [reqPc EXCEPT ![r] = "saveConfig"]
                /\ UNCHANGED startDisabled
             \/ /\ isUnlocked
                /\ reqPc' = [reqPc EXCEPT ![r] = "done"]
                /\ startDisabled' = FALSE
    /\ UNCHANGED <<isUnlocked, transactionManager, mgrRunning, mgrStop, tmVars, extraVars>>

\* The guard of executeOperation, as the manager of request r evaluates it.
ManagerAccepts(r) == ~mgrRunning[r]

\* saveConfig returned, having put {id: 'main', ...config} in the config
\* store: `this.transactionManager = new TransactionManager(...)`,
\* setOperationRunning(true), then executeOperation on the new manager up to
\* its first await.  If saveConfig threw: the catch and the finally.
SaveConfigReturns ==
    \E r \in 1..MaxRequests :
       /\ reqPc[r] = "saveConfig"
       /\ \/ /\ configDb' = ConfigFromForm
             /\ transactionManager' = r
             /\ IF ManagerAccepts(r)
                  THEN /\ mgrRunning' = [mgrRunning EXCEPT ![r] = TRUE]
                       /\ mgrStop' = [mgrStop EXCEPT ![r] = FALSE]
                       /\ startDisabled' = TRUE
                       /\ reqPc' = [reqPc EXCEPT ![r] = "executing"]
                  ELSE /\ UNCHANGED <<mgrRunning, mgrStop>>
                       /\ startDisabled' = FALSE
                       /\ reqPc' = [reqPc EXCEPT ![r] = "done"]
          \/ /\ startDisabled' = FALSE
             /\ reqPc' = [reqPc EXCEPT ![r] = "done"]
             /\ UNCHANGED <<transactionManager, mgrRunning, mgrStop, configDb>>
       /\ UNCHANGED <<isUnlocked, tmVars, masterBalance, pureVars>>

\* executeOperation of request r settles (its finally clears isRunning); the
\* handler goes on to refresh the tables.
OperationSettles ==
    \E r \in 1..MaxRequests :
       /\ reqPc[r] = "executing"
       /\ mgrRunning' = [mgrRunning EXCEPT ![r] = FALSE]
       /\ reqPc' = [reqPc EXCEPT ![r] = "finishing"]
       /\ UNCHANGED <<isUnlocked, startDisabled, transactionManager, mgrStop, tmVars, extraVars>>

\* The handler's finally: setOperationRunning(false) re-enables the button.
HandleStartFinally ==
    \E r \in 1..MaxRequests :
       /\ reqPc[r] = "finishing"
       /\ startDisabled' = FALSE
       /\ reqPc' = [reqPc EXCEPT ![r] = "done"]
       /\ UNCHANGED <<isUnlocked, transactionManager, mgrRunning, mgrStop, tmVars, extraVars>>

\* handleStopOperation: stops the manager App currently points to, if it runs.
HandleStopOperation ==
    /\ transactionManager # 0
    /\ mgrRunning[transactionManager]
    /\ mgrStop' = [mgrStop EXCEPT ![transactionManager] = TRUE]
    /\ UNCHANGED <<isUnlocked, startDisabled, transactionManager, reqPc, mgrRunning, tmVars, extraVars>>

\* ------------------------------------------------------------- watchdog
\* Date.now() - lastActivityTime exceeds k times the timeout.  The clock
\* counts units of WatchdogIntervalMs / Granularity milliseconds.
StalledBeyond(k) ==
    (now - lastActivityTime) * WatchdogIntervalMs > k * watchdogTimeout * Granularity

\* The snapshot checkWatchdog hands to onStatusUpdate (lines 660-671).
StuckStatus ==
    [isRunning |-> isRunning, walletsCreated |-> 0, ethTransferred |-> 0,
     swapsCompleted |-> 0, tokensTransferred |-> 0,
     currentStep |-> "Stuck", progress |-> 0]

\* Variant of the tick that cancels a stalled operation.
CheckWatchdogCancels ==
    /\ watchdogTimer
    /\ now = nextTick
    /\ nextTick' = nextTick + Granularity
    /\ IF StalledBeyond(1)
         THEN /\ shouldStop' = TRUE
              /\ isStuck' = TRUE
              /\ wdLog' = IF isStuck THEN "none" ELSE "warning"
              /\ wdWarnings' = IF isStuck THEN wdWarnings ELSE wdWarnings + 1
         ELSE /\ wdLog' = "none"
              /\ UNCHANGED <<shouldStop, isStuck, wdWarnings>>
    /\ UNCHANGED <<isRunning, watchdogTimer, timers, frame, ledger, net, published,
                   callResult, tbVars, faults, h, now, lastActivityTime, appVars, extraVars>>

\* Variant of the tick that does not remember that it warned.
CheckWatchdogForgets ==
    /\ watchdogTimer
    /\ now = nextTick
    /\ nextTick' = nextTick + Granularity
    /\ IF StalledBeyond(1)
         THEN /\ wdLog' = "warning"
              /\ wdWarnings' = wdWarnings + 1
              /\ published' = StuckStatus
         ELSE /\ wdLog' = "none"
              /\ UNCHANGED <<wdWarnings, published>>
    /\ UNCHANGED <<mgr, frame, ledger, net, callResult, tbVars, faults, h,
                   now, lastActivityTime, isStuck, appVars, extraVars>>

\* Variant of the tick that escalates as soon as the operation is stuck.
CheckWatchdogEscalatesEarly ==
    /\ watchdogTimer
    /\ now = nextTick
    /\ nextTick' = nextTick + Granularity
    /\ IF StalledBeyond(1)
         THEN IF ~isStuck
                THEN /\ isStuck' = TRUE
                     /\ wdLog' = "warning"
                     /\ wdWarnings' = wdWarnings + 1
                     /\ published' = StuckStatus
                ELSE /\ wdLog' = "critical"
                     /\ UNCHANGED <<isStuck, wdWarnings, published>>
         ELSE /\ wdLog' = "none"
              /\ UNCHANGED <<isStuck, wdWarnings, published>>
    /\ UNCHANGED <<mgr, frame, ledger, net, callResult, tbVars, faults, h,
                   now, lastActivityTime, appVars, extraVars>>

\* checkWatchdog (lines 650-679), run by the interval timer: the first tick
\* that finds the operation stalled sets isStuck, logs the warning and
\* publishes a snapshot; a later tick logs the critical message once the
\* stall exceeds twice the timeout.
CheckWatchdog ==
    /\ watchdogTimer
    /\ now = nextTick
    /\ nextTick' = nextTick + Granularity
    /\ IF StalledBeyond(1)
         THEN IF ~isStuck
                THEN /\ isStuck' = TRUE
                     /\ wdLog' = "warning"
                     /\ wdWarnings' = wdWarnings + 1
                     /\ published' = StuckStatus
                ELSE /\ wdLog' = IF StalledBeyond(2) THEN "critical" ELSE "none"
                     /\ UNCHANGED <<isStuck, wdWarnings, published>>
         ELSE /\ wdLog' = "none"
              /\ UNCHANGED <<isStuck, wdWarnings, published>>
    /\ UNCHANGED <<mgr, frame, ledger, net, callResult, tbVars, faults, h,
                   now, lastActivityTime, appVars, extraVars>>

\* updateActivity (lines 641-645), called by the running operation when it
\* reports a sub-step.
UpdateActivity ==
    /\ isRunning
    /\ lastActivityTime' = now
    /\ isStuck' = FALSE
    /\ wdWarnings' = 0
    /\ UNCHANGED <<mgr, frame, ledger, net, published, callResult, tbVars, faults, h,
                   now, nextTick, wdLog, appVars, extraVars>>

\* Time passes; an active timer ticks when its interval is over.
Advance ==
    /\ now < MaxIntervals * Granularity
    /\ watchdogTimer => now < nextTick
    /\ now' = now + 1
    /\ UNCHANGED <<mgr, frame, ledger, net, published, callResult, tbVars, faults, h,
                   lastActivityTime, isStuck, nextTick, wdLog, wdWarnings, appVars, extraVars>>

\* The ways a running operation ends, with the steps in between left out:
\* the return after a loop that saw shouldStop, ...
RunReturnsOnStop ==
    /\ isRunning
    /\ shouldStop
    /\ ReturnOnStop
    /\ UNCHANGED <<shouldStop, i, config, wallets, txId, status, error, cleanupError,
                   allWallets, sweepEth, ledger, net, published, callResult, tbVars,
                   faults, h, wdVars, appVars, extraVars>>

\* ... the completion after phase 5, ...
RunCompletes ==
    /\ isRunning
    /\ Complete(status)
    /\ UNCHANGED <<shouldStop, i, config, wallets, txId, error, cleanupError,
                   allWallets, sweepEth, ledger, net, callResult, tbVars,
                   faults, h, wdVars, appVars, extraVars>>

\* ... and the rethrow that ends the outer catch.
RunRejects ==
    /\ isRunning
    /\ RethrowAfterCleanup
    /\ UNCHANGED <<shouldStop, i, config, wallets, txId, error, cleanupError,
                   allWallets, sweepEth, ledger, net, callResult, tbVars,
                   faults, h, wdVars, appVars, extraVars>>

\* A phase step that succeeded, with the awaits before it left out: the
\* counter and the progress go up by one item and the snapshot is published
\* (lines 130-132, 191-193, 280-282, 411-413).
RunPublishesProgress ==
    /\ isRunning
    /\ status.progress < 100 * (config.numWallets * 4)
    /\ status' = [status EXCEPT !.progress = @ + 100]
    /\ published' = status'
    /\ UNCHANGED <<mgr, pc, i, config, wallets, txId, error, cleanupError, allWallets,
                   sweepEth, result, ledger, net, callResult, tbVars, faults, h,
                   wdVars, appVars, extraVars>>

\* ------------------------------------------- the planning functions alone
\* generateRandomAllocations called on its own, on every combination of a
\* number of wallets, a minimum and a maximum that validateConfig accepts
\* (0 < min <= max) and an amount available, negative amounts included.
AllocInputs ==
    {[kind |-> "call", numWallets |-> n, totalAvailable |-> t, minAmount |-> lo,
      maxAmount |-> hi] :
        n \in 1..MaxWallets,
        t \in Numbers(0 - 1, MaxWallets * MaxAmount + MaxAmount),
        lo \in Numbers(1, MaxAmount), hi \in Numbers(1, MaxAmount)}

AllocInit ==
    /\ TMInit
    /\ AppInit
    /\ configDb = NoConfig
    /\ masterBalance = 0
    /\ allocInput \in {c \in AllocInputs : c.minAmount <= c.maxAmount}
    /\ allocOutput = NoOutput
    /\ swapInput = NoInput
    /\ swapOutput = NoOutput
    /\ backInput = NoInput
    /\ backOutput = NoBackOutput

\* ----------------------------------------------------- the swap amount
\* Balances, gas prices and amounts are counted in one unit, the gas price
\* the code falls back to when getFeeData reports none (0.1 gwei).
FallbackGasPrice == 1

\* `feeData.gasPrice || ethers.parseUnits('0.1', 'gwei')`: a missing price
\* (written 0) and a price of 0 both give the fallback.
GasPrice(feeDataGasPrice) ==
    IF feeDataGasPrice = 0 THEN FallbackGasPrice ELSE feeDataGasPrice

\* swapGasLimit * gasPrice * 150n / 100n, in integer arithmetic.
GasReserveWei(gasPrice) == (swapGasLimit * gasPrice * GasBufferPercent) \div 100

\* ethers.formatEther prints the integer amount exactly, parseFloat reads it
\* as a number.
FormatThenParseFloat(wei) == Fl(wei)

\* number.toFixed(18) prints a number to 18 decimals; ethers.parseEther reads
\* that text as an integer amount.  A number of the model is a whole amount
\* of units, which 18 decimals print without loss.
ToFixedThenParseEther(x) == x

\* The swap loop's iteration for one wallet up to the decision (lines
\* 222-243) and what it does next: `continue` without a record, or a pending
\* token_swap record (258) and swapETHToToken with formattedAmount (262).
SwapIteration(purchaseAmount, actualBalance, feeDataGasPrice) ==
    LET gasReserveWei == GasReserveWei(GasPrice(feeDataGasPrice))
        availableForSwapWei == actualBalance - gasReserveWei
        availableForSwap == FormatThenParseFloat(availableForSwapWei)
        actualSwapAmount == Min(purchaseAmount, Max(0, availableForSwap))
    IN  IF actualSwapAmount <= 0
          THEN [kind |-> "skipped", record |-> FALSE, amount |-> 0,
                gasReserveWei |-> gasReserveWei]
          ELSE [kind |-> "submitted", record |-> TRUE,
                amount |-> ToFixedThenParseEther(actualSwapAmount),
                gasReserveWei |-> gasReserveWei]

\* The wallet's allocation, the gas price reported and the balance read: no
\* balance, or a balance around the gas reserve.
SwapInputs ==
    {[kind |-> "call", purchaseAmount |-> a, feeDataGasPrice |-> g,
      actualBalance |-> Max(0, b * (GasReserveWei(GasPrice(g)) + d))] :
        a \in Numbers(1, MaxAmount), g \in 0..MaxGasPrice, b \in {0, 1},
        d \in (0 - 2)..(MaxAmount + 2)}

SwapInit ==
    /\ TMInit
    /\ AppInit
    /\ configDb = NoConfig
    /\ masterBalance = 0
    /\ allocInput = NoInput
    /\ allocOutput = NoOutput
    /\ swapInput \in SwapInputs
    /\ swapOutput = NoOutput
    /\ backInput = NoInput
    /\ backOutput = NoBackOutput

ComputeSwapAmount ==
    /\ swapInput # NoInput
    /\ swapOutput = NoOutput
    /\ swapOutput' = SwapIteration(swapInput.purchaseAmount, swapInput.actualBalance,
                                   swapInput.feeDataGasPrice)
    /\ UNCHANGED <<tmVars, appVars, configDb, masterBalance, allocInput, allocOutput, swapInput,
                   backInput, backOutput>>

\* ------------------------------------------- emptying one wallet
\* Token amounts are counted in the smallest amount the code still moves
\* (0.000001 token); ETH amounts in the unit of the swap amount above.
SignificantTokens == 1

\* BigInt(10000000000000) wei, i.e. 0.00001 ETH, in units of 0.1 gwei.
DustWei == 100000

TransferGasLimit == 21000

\* The decision both routines take on the token balance read (lines 318-357
\* and 785-825): the amount above minKeptTokens is sent when it exceeds
\* 0.000001, as the text of the number.
TokenDecision(tokenBalance, minKeptTokens) ==
    LET tokenBalanceNum == Fl(tokenBalance)
        minKept == Fl(minKeptTokens)
        tokensToTransfer == FlSub(tokenBalanceNum, minKept)
    IN  IF tokensToTransfer > SignificantTokens
          THEN [submit |-> TRUE, amount |-> tokensToTransfer]
          ELSE [submit |-> FALSE, amount |-> 0]

\* The decision on the ETH balance read, for a gas limit: nothing below the
\* dust limit, else the balance less twice the gas cost when that is
\* positive, as the exact text of the integer.
EthDecision(ethBalanceWei, feeDataGasPrice, gasLimit) ==
    IF ethBalanceWei > DustWei
      THEN LET gasPrice == GasPrice(feeDataGasPrice)
               maxGasCostWei == gasLimit * gasPrice * 2
               transferWei == ethBalanceWei - maxGasCostWei
           IN  IF transferWei > 0
                 THEN [submit |-> TRUE, amount |-> transferWei]
                 ELSE [submit |-> FALSE, amount |-> 0]
      ELSE [submit |-> FALSE, amount |-> 0]

\* Variant of the manual routine's gas limit without the default.
GasLimitWithoutDefault(customGasLimit) == customGasLimit

\* `customGasLimit ? BigInt(customGasLimit) : BigInt(21000)` (line 839); an
\* absent override is written 0, which the test treats alike.
TransferBackGasLimit(customGasLimit) ==
    IF customGasLimit # 0 THEN customGasLimit ELSE TransferGasLimit

\* Phase 5 for one wallet (lines 312-406).
ConsolidationDecision(in) ==
    [kind |-> "decided",
     token |-> TokenDecision(in.tokenBalance, in.minKeptTokens),
     eth |-> EthDecision(in.ethBalanceWei, in.feeDataGasPrice, TransferGasLimit),
     tokenAddress |-> in.tokenAddress, targetAddress |-> in.targetAddress]

\* transferBackFromWallet for the same wallet (lines 779-887).
TransferBackDecision(in) ==
    [kind |-> "decided",
     token |-> TokenDecision(in.tokenBalance, in.minKeptTokens),
     eth |-> EthDecision(in.ethBalanceWei, in.feeDataGasPrice,
                         TransferBackGasLimit(in.customGasLimit)),
     tokenAddress |-> in.tokenAddress, targetAddress |-> in.targetAddress]

\* Gas prices up to the first one whose doubled cost exceeds the dust limit.
BackGasPrices == 0..(MaxGasPrice + 1)

\* Token balances around minKeptTokens, ETH balances around the dust limit
\* and around the doubled gas cost, with and without an override.
BackInputs ==
    {[kind |-> "call", tokenBalance |-> t, minKeptTokens |-> m,
      ethBalanceWei |-> Max(0, b + d), feeDataGasPrice |-> g, customGasLimit |-> c,
      tokenAddress |-> "token", targetAddress |-> "target"] :
        t \in 0..(Granularity + 2), m \in 0..Granularity, g \in BackGasPrices,
        c \in {0, TransferGasLimit, 2 * TransferGasLimit},
        b \in {0, DustWei, 2 * TransferGasLimit * MaxGasPrice,
               2 * TransferGasLimit * (MaxGasPrice + 1)},
        d \in {0 - 1, 0, 1}}

BackInit ==
    /\ TMInit
    /\ AppInit
    /\ configDb = NoConfig
    /\ masterBalance = 0
    /\ allocInput = NoInput
    /\ allocOutput = NoOutput
    /\ swapInput = NoInput
    /\ swapOutput = NoOutput
    /\ backInput \in BackInputs
    /\ backOutput = NoBackOutput

ConsolidateOneWallet ==
    /\ backInput # NoInput
    /\ backOutput.consolidation = NoOutput
    /\ backOutput' = [backOutput EXCEPT !.consolidation = ConsolidationDecision(backInput)]
    /\ UNCHANGED <<tmVars, appVars, configDb, masterBalance, allocInput, allocOutput,
                   swapInput, swapOutput, backInput>>

TransferBackOneWallet ==
    /\ backInput # NoInput
    /\ backOutput.transferBack = NoOutput
    /\ backOutput' = [backOutput EXCEPT !.transferBack = TransferBackDecision(backInput)]
    /\ UNCHANGED <<tmVars, appVars, configDb, masterBalance, allocInput, allocOutput,
                   swapInput, swapOutput, backInput>>

\* The call returns or throws.
GenerateRandomAllocations ==
    /\ allocInput # NoInput
    /\ allocOutput = NoOutput
    /\ allocOutput' \in generateRandomAllocations(allocInput.numWallets,
                                                  allocInput.totalAvailable,
                                                  allocInput.minAmount, allocInput.maxAmount)
    /\ UNCHANGED <<tmVars, appVars, configDb, masterBalance, allocInput, swapInput, swapOutput,
                   backInput, backOutput>>


\* ------------------------------------------------------- specifications
\* The two entry points are exercised one at a time: a behaviour follows an
\* executeOperation call (with the stop requests made while it runs) or a
\* transferBackFromWallet call.
Next ==
    \/ (tbPc = "idle" /\ pc = "idle" /\ ExecuteOperation)
    \/ StopOperation
    \/ LoadMaster
    \/ CreateNext
    \/ SaveWallet
    \/ FundNext
    \/ FundTransfer
    \/ FundUpdateTx
    \/ FundUpdateWallet
    \/ FundCatch
    \/ SwapNext
    \/ SwapSubmit
    \/ SwapUpdateTx
    \/ SwapUpdateWallet
    \/ ConsolNext
    \/ ConsolTokSubmit
    \/ ConsolTokUpdate
    \/ ConsolEth
    \/ ConsolEthSubmit
    \/ ConsolEthUpdate
    \/ ConsolMark
    \/ ConsolCatch
    \/ CleanupGetAll
    \/ SweepNext
    \/ CleanTokSubmit
    \/ CleanTokUpdate
    \/ CleanEth
    \/ CleanEthSubmit
    \/ CleanEthUpdate
    \/ CleanMark
    \/ (pc = "idle" /\ TransferBackFromWallet)
    \/ TbTokSubmit
    \/ TbTokUpdate
    \/ TbEth
    \/ TbEthSubmit
    \/ TbEthUpdate
    \/ TbMark
    \/ TbCatch

\* A manager constructed over an empty ledger.
AgainInit == Init /\ walletsDb = <<>>

\* executeOperation called again once the previous call has settled, for runs
\* of one wallet.
AgainNext ==
    \/ (ExecuteOperationAgain /\ config'.numWallets = 1)
    \/ StopOperation
    \/ LoadMaster
    \/ CreateNext
    \/ SaveWallet
    \/ FundNext
    \/ FundTransfer
    \/ FundUpdateTx
    \/ FundUpdateWallet
    \/ FundCatch
    \/ SwapNext
    \/ SwapSubmit
    \/ SwapUpdateTx
    \/ SwapUpdateWallet
    \/ ConsolNext
    \/ ConsolTokSubmit
    \/ ConsolTokUpdate
    \/ ConsolEth
    \/ ConsolEthSubmit
    \/ ConsolEthUpdate
    \/ ConsolMark
    \/ ConsolCatch
    \/ CleanupGetAll
    \/ SweepNext
    \/ CleanTokSubmit
    \/ CleanTokUpdate
    \/ CleanEth
    \/ CleanEthSubmit
    \/ CleanEthUpdate
    \/ CleanMark

\* The steps of an accepted executeOperation: each is the continuation of an
\* awaited collaborator call (or timer), which the event loop runs once the
\* call has returned or thrown.
RunSteps ==
    \/ LoadMaster
    \/ CreateNext
    \/ SaveWallet
    \/ FundNext
    \/ FundTransfer
    \/ FundUpdateTx
    \/ FundUpdateWallet
    \/ FundCatch
    \/ SwapNext
    \/ SwapSubmit
    \/ SwapUpdateTx
    \/ SwapUpdateWallet
    \/ ConsolNext
    \/ ConsolTokSubmit
    \/ ConsolTokUpdate
    \/ ConsolEth
    \/ ConsolEthSubmit
    \/ ConsolEthUpdate
    \/ ConsolMark
    \/ ConsolCatch
    \/ CleanupGetAll
    \/ SweepNext
    \/ CleanTokSubmit
    \/ CleanTokUpdate
    \/ CleanEth
    \/ CleanEthSubmit
    \/ CleanEthUpdate
    \/ CleanMark

\* One executeOperation call over a ledger that earlier runs have left
\* wallets in, with the stop requests made while it runs.
LiveInit == Init /\ walletsDb # <<>>

LiveNext ==
    \/ (pc = "idle" /\ ExecuteOperation)
    \/ StopOperation
    \/ RunSteps

\* The same, with executeOperation also called while the operation runs.
ReentryNext == Next \/ ExecuteOperationRejected

\* transferBackFromWallet has no guard on isRunning: a call can be made while
\* executeOperation and its sweep run, and their steps interleave.  The
\* interleavings are explored for runs of one wallet and one such call.
InterleavedNext ==
    \/ (pc = "idle" /\ ExecuteOperation /\ config'.numWallets = 1)
    \/ StopOperation
    \/ LoadMaster
    \/ CreateNext
    \/ SaveWallet
    \/ FundNext
    \/ FundTransfer
    \/ FundUpdateTx
    \/ FundUpdateWallet
    \/ FundCatch
    \/ SwapNext
    \/ SwapSubmit
    \/ SwapUpdateTx
    \/ SwapUpdateWallet
    \/ ConsolNext
    \/ ConsolTokSubmit
    \/ ConsolTokUpdate
    \/ ConsolEth
    \/ ConsolEthSubmit
    \/ ConsolEthUpdate
    \/ ConsolMark
    \/ ConsolCatch
    \/ CleanupGetAll
    \/ SweepNext
    \/ CleanTokSubmit
    \/ CleanTokUpdate
    \/ CleanEth
    \/ CleanEthSubmit
    \/ CleanEthUpdate
    \/ CleanMark
    \/ (tbPc = "idle" /\ TransferBackFromWallet)
    \/ TbTokSubmit
    \/ TbTokUpdate
    \/ TbEth
    \/ TbEthSubmit
    \/ TbEthUpdate
    \/ TbMark
    \/ TbCatch

\* The watchdog beside a sequence of operations, of which only the start, the
\* reported sub-steps and the end are followed, with the clock running.  The
\* number of wallets plays no part here: operations of one wallet are started.
WatchdogNext ==
    \/ (ExecuteOperation /\ config'.kind = "valid" /\ config'.numWallets = 1)
    \/ StopOperation
    \/ UpdateActivity
    \/ CheckWatchdog
    \/ Advance
    \/ RunReturnsOnStop
    \/ RunCompletes
    \/ RunRejects

\* The snapshots of one operation of one wallet, from the phase steps and
\* from the watchdog, with the clock running.
ProgressNext ==
    \/ (pc = "idle" /\ ExecuteOperation /\ config'.kind = "valid" /\ config'.numWallets = 1)
    \/ RunPublishesProgress
    \/ UpdateActivity
    \/ CheckWatchdog
    \/ Advance
    \/ RunCompletes

\* The App handlers, each start request with a TransactionManager of its own.
AppNext ==
    \/ HandleUnlock
    \/ HandleStartOperation
    \/ SaveConfigReturns
    \/ OperationSettles
    \/ HandleStartFinally
    \/ HandleStopOperation

Spec == Init /\ [][Next]_vars
SpecReentry == Init /\ [][ReentryNext]_vars
SpecApp == Init /\ [][AppNext]_vars
SpecInterleaved == Init /\ [][InterleavedNext]_vars
SpecWatchdog == Init /\ [][WatchdogNext]_vars
SpecAllocation == AllocInit /\ [][GenerateRandomAllocations]_vars
SpecSwapAmount == SwapInit /\ [][ComputeSwapAmount]_vars
SpecAgain == AgainInit /\ [][AgainNext]_vars
SpecLive == LiveInit /\ [][LiveNext]_vars /\ WF_vars(RunSteps)
SpecProgress == Init /\ [][ProgressNext]_vars
SpecTransferBack == BackInit /\ [][ConsolidateOneWallet \/ TransferBackOneWallet]_vars

\* ------------------------------------------------------------- properties
\* Errors that escape the per-wallet handling of phases 2-5.
EscapingErrors == {"createWallet", "saveWallet", "updateWallet"}

\* The wallet records of this run, by position in `wallets`.
RunWallets == 1..Len(wallets)

\* Transaction records written by executeOperation or by its sweep.
RunRecords == {t \in 1..Len(txDb) : txDb[t].by \in {"run", "sweep"}}

\* The executeOperation runs in progress, one manager per start request.
RunsInProgress == {r \in 1..MaxRequests : mgrRunning[r]}

\* C1: a call to executeOperation made while an operation is in progress is
\* rejected and changes nothing: the manager's flags and timers, the frame of
\* the running operation, the ledger, the chain and the published status are
\* what they were, in every phase, the cleanup sweep included.
C1_RejectedCallChangesNothing ==
    [][callResult' # callResult =>
          /\ isRunning /\ isRunning'
          /\ callResult' = "rejected"
          /\ UNCHANGED <<mgr, frame, ledger, net, published, tbVars, faults, h>>]_vars

C1_Witness ==
    /\ callResult = "rejected"
    /\ PhaseOf(pc) = "sweep"
    /\ isRunning /\ watchdogTimer /\ timers = 1

\* C2: at the application level at most one executeOperation run is in
\* progress at any time, whatever the sequence of start requests.
C2_AtMostOneRunInProgress == Cardinality(RunsInProgress) <= 1

\* C3: when validateConfig rejects the configuration, the call settles having
\* written no wallet record and no transaction record, submitted nothing
\* on-chain and modified no existing wallet record.
C3_ValidationFailureHasNoSideEffects ==
    error = "config" =>
       /\ h.touched = {}
       /\ chain = {}
       /\ RunRecords = {}
       /\ \A w \in 1..Len(walletsDb) : ~walletsDb[w].own

\* C4: whenever an error reaches the outer catch, the cleanup sweep is started
\* exactly once before the call rejects, and the rejection carries the error
\* that was caught, also when the sweep itself failed.
C4_CleanupOnceThenOriginalError ==
    /\ h.cleanupStarts <= 1
    /\ (PhaseOf(pc) = "sweep" => h.cleanupStarts = 1 /\ error # "none" /\ result = NoResult)
    /\ (error # "none" => h.cleanupStarts = 1)
    /\ (error # "none" /\ pc = "done" => result = [kind |-> "rejected", error |-> error])
    /\ (result.kind = "rejected" => error # "none" /\ h.cleanupStarts = 1)
    /\ (cleanupError # "none" => error # "none" /\ pc = "done")

C4_Witness ==
    /\ pc = "done"
    /\ error \in EscapingErrors
    /\ cleanupError = "getAllWallets"
    /\ result = [kind |-> "rejected", error |-> error]
    /\ h.cleanupStarts = 1

\* C5 as stated: once stopOperation was called in the create, fund or swap
\* phase, the call returns normally and the cleanup sweep never runs.
C5_StopMeansCleanReturn ==
    h.stopPhase \in {"create", "fund", "swap"} =>
       /\ h.cleanupStarts = 0
       /\ (pc = "done" => result.kind = "resolved")

\* C5, amended: once stopOperation was called in the create, fund or swap
\* phase, no later phase is entered and 'Completed' is never published; the
\* only errors that still reach the outer catch are those of the in-flight
\* step (createWallet, saveWallet, or updateWallet in the funding catch); and
\* unless such an error escapes, the call returns normally and the sweep
\* never runs.
C5_StopMeansCleanReturnUnlessErrorEscapes ==
    h.stopPhase \in {"create", "fund", "swap"} =>
       /\ PhaseOf(pc) # "consolidate"
       /\ status.currentStep # "Completed"
       /\ (PhaseOf(pc) \in {"create", "fund", "swap"} => PhaseOf(pc) = h.stopPhase)
       /\ (error # "none" => error \in EscapingErrors)
       /\ (error = "none" =>
              /\ h.cleanupStarts = 0
              /\ (pc = "done" => result = [kind |-> "resolved", error |-> "none"]))

C5_Witness ==
    /\ h.stopPhase = "fund"
    /\ pc = "done"
    /\ error = "none"
    /\ result.kind = "resolved"
    /\ status.currentStep = "Funding wallets"
    /\ ~isRunning

\* C6: after stopOperation is called on a running operation, no further
\* per-wallet iteration begins in any loop (creation, funding, swap,
\* consolidation, sweep).
C6_NoIterationBeginsAfterStop ==
    [][shouldStop => h'.begun = h.begun]_vars

\* C7: when the call resolves having published 'Completed', every wallet
\* record created by the run has persisted status completed.
C7_CompletedMeansEveryWalletCompleted ==
    (pc = "done" /\ result.kind = "resolved" /\ published.currentStep = "Completed") =>
       \A k \in RunWallets : walletsDb[wallets[k]].status = "completed"

\* C8: every on-chain submission, in executeOperation, in the sweep and in
\* transferBackFromWallet, is made for a transaction record that was already
\* persisted with status pending for that very action; so when saving the
\* record failed, nothing is submitted.
C8_PendingRecordBeforeSubmission ==
    [][\A c \in chain' \ chain :
          /\ c.tx \in 1..Len(txDb)
          /\ txDb[c.tx].status = "pending"
          /\ txDb[c.tx].type = c.type
          /\ txDb[c.tx].from = c.from
          /\ txDb[c.tx].by = c.by
          /\ \A d \in chain : d.tx # c.tx]_vars

C8_Witness ==
    /\ \E c \in chain : c.by = "run" /\ c.type = "fund_transfer"
    /\ \E c \in chain : c.by = "sweep" /\ c.type = "eth_transfer"
    /\ faults > 0

\* C9: after the call has settled, no transaction record it created for an
\* action that was submitted is still pending.
C9_NoPendingRecordAfterSettle ==
    pc = "done" =>
       \A t \in RunRecords :
          (\E c \in chain : c.tx = t) => txDb[t].status # "pending"

\* C10: when the only failures are funding transfers that throw and no stop
\* is requested, the funding loop attempts all N wallets, leaves each wallet
\* whose transfer threw at created and every other one at funded, and the
\* run goes on to the swap phase: no sweep, no rejection.
C10_FundingFailureIsLocal ==
    [][(PhaseOf(pc) = "fund" /\ PhaseOf(pc') # "fund" /\ ~h'.otherFault /\ ~shouldStop) =>
          /\ PhaseOf(pc') = "swap"
          /\ Len(wallets) = config.numWallets
          /\ \A k \in RunWallets :
                /\ <<"fund", k>> \in h.begun
                /\ walletsDb'[wallets[k]].status =
                      IF k \in h.fundThrew THEN "created" ELSE "funded"
          /\ h'.cleanupStarts = 0
          /\ error' = "none"
          /\ result' = NoResult]_vars

C10_Witness ==
    /\ PhaseOf(pc) = "swap"
    /\ ~h.otherFault /\ h.stopPhase = "none"
    /\ config.numWallets = MaxWallets
    /\ h.fundThrew = {1}
    /\ walletsDb[wallets[1]].status = "created"
    /\ walletsDb[wallets[MaxWallets]].status \in {"funded", "swapped"}
    /\ <<"swap", 1>> \in h.begun

\* Wallet w has a token_transfer or eth_transfer record sent from it.
HasTransferRecord(w) ==
    \E t \in 1..Len(txDb) :
       txDb[t].type \in {"token_transfer", "eth_transfer"} /\ txDb[t].from = w

\* C11: the swap phase creates a token_swap record, and submits a swap, only
\* for a wallet whose persisted status is funded.
C11_SwapOnlyForFundedWallets ==
    [][/\ \A t \in (1..Len(txDb')) \ (1..Len(txDb)) :
             txDb'[t].type = "token_swap" => walletsDb[txDb'[t].wallet].status = "funded"
       /\ \A c \in chain' \ chain :
             c.type = "token_swap" => walletsDb[c.from].status = "funded"]_vars

\* C12: the consolidation phase begins no iteration (no balance read) for a
\* wallet whose status is still created, and does not mark it completed.
C12_ConsolidationSkipsCreatedWallets ==
    [][\A k \in RunWallets :
          walletsDb[wallets[k]].status = "created" =>
             /\ <<"consolidate", k>> \notin (h'.begun \ h.begun)
             /\ (PhaseOf(pc) = "consolidate" => walletsDb'[wallets[k]].status = "created")]_vars

\* C13: whenever a wallet is marked completed, it has a token_transfer or
\* eth_transfer record sent from it, or it holds neither tokens nor ETH above
\* the dust thresholds at that moment.
C13_CompletedHasTransferOrDust ==
    [][\A w \in 1..Len(walletsDb) :
          (walletsDb'[w].status = "completed" /\ walletsDb[w].status # "completed") =>
             \/ HasTransferRecord(w)
             \/ (w \notin tokHeld /\ w \notin ethHeld)]_vars

\* C15: once a cleanup sweep triggered by a fatal error has ended, every
\* wallet of the ledger has status completed.
C15_SweepLeavesEveryWalletCompleted ==
    (pc = "done" /\ h.cleanupStarts = 1) =>
       \A w \in 1..Len(walletsDb) : walletsDb[w].status = "completed"

\* C16: a step of a transferBackFromWallet call on a wallet that is completed
\* and holds neither tokens nor ETH saves no transaction record, submits
\* nothing and leaves the wallet completed; so does every later call.
C16_TransferBackOnCompletedIsNoOp ==
    [][(tbPc' # tbPc /\ tbInitial' = [status |-> "completed", funds |-> FALSE]) =>
          /\ txDb' = txDb
          /\ chain' = chain
          /\ walletsDb' = walletsDb
          /\ UNCHANGED <<ethHeld, tokHeld>>]_vars

\* A second call on a wallet that an earlier call emptied and completed has
\* passed both balance tests.
C16_Witness ==
    /\ tbPc = "tbMark"
    /\ tbInitial = [status |-> "completed", funds |-> FALSE]
    /\ \E t \in 1..Len(txDb) :
          txDb[t].by = "back" /\ txDb[t].wallet = tbWallet /\ txDb[t].status = "success"

\* Position of a wallet status in the order created < funded < swapped <
\* transferred < completed.
StatusRank(st) ==
    CASE st = "created" -> 1
      [] st = "funded" -> 2
      [] st = "swapped" -> 3
      [] st = "transferred" -> 4
      [] st = "completed" -> 5

\* C14: no write to a wallet record moves its status backward, except funded
\* to created; in particular completed is final.
C14_StatusNeverRegresses ==
    [][\A w \in 1..Len(walletsDb) :
          \/ StatusRank(walletsDb'[w].status) >= StatusRank(walletsDb[w].status)
          \/ (walletsDb[w].status = "funded" /\ walletsDb'[w].status = "created")]_vars

\* A step is a tick of the watchdog timer.
IsTick ==
    /\ watchdogTimer
    /\ now = nextTick
    /\ now' = now
    /\ nextTick' = nextTick + Granularity

\* C17: at most one watchdog timer exists at any time, it exists exactly
\* while an operation runs, and none is left once the operation has
\* settled, over any sequence of operations.
C17_OneWatchdogTornDown ==
    /\ timers \in {0, 1}
    /\ (watchdogTimer <=> timers = 1)
    /\ (isRunning <=> watchdogTimer)
    /\ (result.kind # "none" => ~isRunning /\ timers = 0)

C17_Witness ==
    /\ result.kind = "resolved"
    /\ shouldStop
    /\ published.currentStep = "Stuck"
    /\ ~isRunning /\ ~watchdogTimer /\ timers = 0
    /\ now > nextTick

\* C18: a watchdog tick changes neither isRunning nor shouldStop, writes
\* nothing to the ledger and submits or aborts nothing on-chain; an operation
\* stops running only by settling itself.
C18_TickOnlyObserves ==
    [][/\ IsTick => UNCHANGED <<isRunning, shouldStop, watchdogTimer, timers, frame,
                                ledger, net, lastActivityTime>>
       /\ (isRunning /\ ~isRunning') => (pc' = "done" /\ result'.kind # "none")]_vars

C18_Witness ==
    /\ isRunning
    /\ ~shouldStop
    /\ wdLog = "critical"
    /\ StalledBeyond(2)
    /\ result = NoResult

C20_CriticalOnlyAfterWarning ==
    [][(IsTick /\ wdLog' = "critical") =>
          /\ StalledBeyond(2)
          /\ wdWarnings = 1
          /\ isStuck]_vars

C20_Witness ==
    /\ wdLog = "critical"
    /\ wdWarnings = 1
    /\ isRunning

\* The items the counters of a snapshot count.
ItemsDone(st) ==
    st.walletsCreated + st.ethTransferred + st.swapsCompleted + st.tokensTransferred

\* C25: every snapshot published by the four loops of executeOperation carries
\* progress = (walletsCreated + ethTransferred + swapsCompleted +
\* tokensTransferred) / (numWallets * 4) * 100, also when a per-wallet step
\* failed or was skipped (progress is kept multiplied by numWallets * 4).
C25_ProgressCountsCompletedItems ==
    PhaseOf(pc) \in {"create", "fund", "swap", "consolidate"}
        => published.progress = ItemsDone(published) * 100

\* The phases that come before phase p, and the phase a submission belongs to.
EarlierPhases(p) ==
    CASE p = "fund" -> {"create"}
      [] p = "swap" -> {"create", "fund"}
      [] p = "consolidate" -> {"create", "fund", "swap"}
      [] OTHER -> {}

PhaseOfType(type) ==
    CASE type = "fund_transfer" -> "fund"
      [] type = "token_swap" -> "swap"
      [] OTHER -> "consolidate"

\* All numWallets wallets are created and persisted, and every iteration of
\* the phases before p has begun (and, the loops being sequential, ended).
BarrierPassed(p) ==
    /\ p # "create" => /\ Len(wallets) = config.numWallets
                       /\ \A k \in RunWallets : wallets[k] \in 1..Len(walletsDb)
    /\ \A q \in EarlierPhases(p), j \in 1..config.numWallets : <<q, j>> \in h.begun

\* C26: phases are separated by a barrier and keep creation order: an
\* iteration of a phase begins, and a transaction of a phase is submitted,
\* only after all numWallets wallets were created and persisted and every
\* earlier phase has handled every wallet; inside a phase the iterations
\* begin in ascending wallet index.
C26_PhaseBarrierAndCreationOrder ==
    [][/\ \A e \in h'.begun \ h.begun :
             e[1] # "sweep" => /\ BarrierPassed(e[1])
                               /\ \A j \in 1..(e[2] - 1) : <<e[1], j>> \in h.begun
                               /\ <<e[1], e[2] + 1>> \notin h.begun
       /\ \A c \in chain' \ chain :
             c.by = "run" => /\ BarrierPassed(PhaseOfType(c.type))
                             /\ PhaseOf(pc) = PhaseOfType(c.type)]_vars

\* A consolidation transfer of the second wallet of a two-wallet run was
\* submitted.
C26_Witness ==
    /\ config.numWallets = 2
    /\ <<"consolidate", 2>> \in h.begun
    /\ \E c \in chain : c.by = "run" /\ c.type = "eth_transfer" /\ c.from = wallets[2]

\* A funding or swap step of the run failed for the wallet at position k.
FundingOrSwapFailed(k) ==
    \/ k \in h.fundThrew
    \/ \E t \in RunRecords : /\ txDb[t].by = "run"
                             /\ txDb[t].wallet = wallets[k]
                             /\ txDb[t].type \in {"fund_transfer", "token_swap"}
                             /\ txDb[t].status # "success"

\* C29: after a run, a wallet whose funding or swap failed is still created
\* or funded, never completed, so that it stays available for a retry or a
\* manual transfer back.
C29_FailedWalletStaysRetryable ==
    pc = "done" =>
        \A k \in RunWallets :
            FundingOrSwapFailed(k) => walletsDb[wallets[k]].status \in {"created", "funded"}

\* C30: no record of the wallets store or of the config store holds private
\* key material in plaintext: the keys of the generated wallets and the master
\* private key of the saved configuration are stored encrypted only.
C30_NoPlaintextKeyInLedger ==
    /\ \A w \in 1..Len(walletsDb) : walletsDb[w].encryptedPrivateKey.form = "ciphertext"
    /\ configDb # NoConfig => configDb.masterPrivateKey.form = "ciphertext"

\* The balance read for the master wallet, less numWallets times the gas
\* amount, is below numWallets times the minimum purchase.
ShortOfFunds ==
    /\ masterBalance # 0
    /\ FlSub(Fl(masterBalance), FlMul(ConfigAmounts.gasAmount, config.numWallets))
          < FlMul(config.numWallets, ConfigAmounts.minPurchase)

AllocReturned == allocOutput.kind = "returned"

\* C21: for n >= 1 and n*min <= total <= n*max, whatever the random draws,
\* the allocations generateRandomAllocations returns sum to exactly total.
C21_AllocationsSumToTotal ==
    /\ AllocReturned
    /\ FlMul(allocInput.numWallets, allocInput.minAmount) <= allocInput.totalAvailable
    /\ allocInput.totalAvailable <= FlMul(allocInput.numWallets, allocInput.maxAmount)
    => Reduce(allocOutput.allocations) = allocInput.totalAvailable

\* C22: for n >= 1, min <= max and total >= n*min, whatever the random draws,
\* generateRandomAllocations returns exactly n amounts, each in [min, max].
C22_AllocationsWithinBounds ==
    /\ AllocReturned
    /\ allocInput.minAmount <= allocInput.maxAmount
    /\ allocInput.totalAvailable >= FlMul(allocInput.numWallets, allocInput.minAmount)
    => /\ Len(allocOutput.allocations) = allocInput.numWallets
       /\ \A k \in 1..Len(allocOutput.allocations) :
             /\ allocInput.minAmount <= allocOutput.allocations[k]
             /\ allocOutput.allocations[k] <= allocInput.maxAmount

C24_AboveCeilingEveryoneGetsMax ==
    /\ AllocReturned
    /\ allocInput.totalAvailable > FlMul(allocInput.numWallets, allocInput.maxAmount)
    => /\ allocOutput.warned
       /\ \A k \in 1..Len(allocOutput.allocations) :
             allocOutput.allocations[k] = allocInput.maxAmount

\* What is left of the balance read at swap time once the gas reserve
\* 500000 * gas price * 150 / 100 is set aside, capped by the allocation.
SafeSwapAmount ==
    Min(swapInput.purchaseAmount,
        swapInput.actualBalance - GasReserveWei(GasPrice(swapInput.feeDataGasPrice)))

\* C28: the amount passed to the swap client is min(allocated amount, balance
\* read - reserved gas), so that amount + reserved gas never exceeds the
\* balance read and the amount never exceeds the allocation; when that value
\* is <= 0 no swap is submitted and no token_swap record is created.
C28_SwapAmountLeavesGasReserve ==
    swapOutput # NoOutput =>
        IF SafeSwapAmount <= 0
          THEN swapOutput.kind = "skipped" /\ ~swapOutput.record
          ELSE /\ swapOutput.kind = "submitted"
               /\ swapOutput.amount = SafeSwapAmount
               /\ swapOutput.amount + swapOutput.gasReserveWei <= swapInput.actualBalance
               /\ swapOutput.amount <= swapInput.purchaseAmount

\* The step ends the consolidation iteration of wallet i.
ConsolIterationEnds ==
    /\ PhaseOf(pc) = "consolidate"
    /\ pc # "consol"
    /\ pc' = "consol"

\* No failure of the consolidation phase reaches the outer catch, and a run
\* that resolves without a stop request has begun the iteration of every
\* wallet.
ConsolLoopNeverAborts ==
    /\ PhaseOf(pc) = "consolidate" => PhaseOf(pc') \in {"consolidate", "settled"}
    /\ (pc' = "done" /\ result'.kind = "resolved" /\ ~shouldStop')
          => \A k \in 1..Len(wallets') : <<"consolidate", k>> \in h'.begun

BothDecided ==
    /\ backOutput.consolidation # NoOutput
    /\ backOutput.transferBack # NoOutput

RecordedByRun == {j \in 1..Len(walletsDb) : walletsDb[j].own}

\* C33: in the create phase the record of wallet k is persisted before
\* wallet k+1 is generated: the ledger holds every wallet the run has
\* generated except at most the last one, whose saveWallet has not returned
\* (or has thrown), and wallets holds exactly the recorded ones in order; a
\* run stopped in the create phase leaves exactly the generated wallets
\* recorded.
C33_WalletPersistedBeforeNext ==
    /\ Cardinality(RecordedByRun) = Len(wallets)
    /\ \A k \in RunWallets : wallets[k] \in RecordedByRun
    /\ h.generated - Len(wallets) \in {0, 1}
    /\ h.generated - Len(wallets) = 1 => (pc = "saveWallet" \/ error = "saveWallet")
    /\ (pc = "done" /\ result.kind = "resolved") => h.generated = Len(wallets)

\* The run was stopped while wallet 1 of 2 was being created: it returned
\* with exactly that wallet recorded.
C33_Witness ==
    /\ pc = "done"
    /\ h.stopPhase = "create"
    /\ config.numWallets = 2
    /\ h.generated = 1
    /\ Len(wallets) = 1
    /\ walletsDb[wallets[1]].own

\* The call has been accepted and has not settled.
Unsettled == pc \notin {"idle", "done"}

\* C34: isOperationRunning() is true from the moment executeOperation is
\* accepted until it settles, the cleanup sweep included, and false once it
\* has settled by any path, so that the guard lets a new call in.
C34_RunningExactlyWhileUnsettled ==
    /\ Unsettled => isRunning
    /\ pc = "done" => (~isRunning /\ result # NoResult)
    /\ pc = "idle" => ~isRunning

\* A second call was accepted after the first one settled, and it is in its
\* cleanup sweep with isRunning set.
C34_Witness ==
    /\ h.runs = 2
    /\ PhaseOf(pc) = "sweep"
    /\ isRunning

\* C35: when every collaborator call returns or throws, every accepted
\* executeOperation settles with isRunning false, whatever calls fail and
\* whenever stopOperation is called.
C35_AcceptedOperationSettles ==
    isRunning ~> (pc = "done" /\ ~isRunning /\ result # NoResult)

\* A run of two wallets with a stop request and two failed calls has settled.
C35_Witness ==
    /\ pc = "done"
    /\ ~isRunning
    /\ config.numWallets = 2
    /\ h.stopPhase # "none"
    /\ faults = 2

\* C36: 'Completed' with progress 100 is published only by runs in which
\* cancellation was never requested.
C36_CompletedOnlyWithoutStop ==
    (Unsettled \/ pc = "done") =>
        (published.currentStep = "Completed" => h.stopPhase = "none")

\* C37: the last snapshot published before an accepted call settles has
\* isRunning = false, whether the run succeeded, was cancelled or failed.
C37_LastSnapshotNotRunning ==
    pc = "done" => ~published.isRunning

\* C38: the progress of the successive snapshots published during one
\* operation never decreases and stays within 0..100, the snapshot forced by
\* the watchdog included (progress is kept multiplied by numWallets * 4).
C38_ProgressNeverDecreases ==
    [][isRunning =>
          /\ published'.progress >= published.progress
          /\ published'.progress \in 0..(100 * (config.numWallets * 4))]_vars

\* The run has begun the iteration of every wallet in each of its four loops.
RanAllPhases ==
    \A q \in {"create", "fund", "swap", "consolidate"}, k \in 1..config.numWallets :
        <<q, k>> \in h.begun

\* C39: stopOperation called while no operation runs changes nothing, and a
\* stop requested during one operation does not carry over: an accepted
\* executeOperation starts with the cancellation flag clear, the flag is set
\* during a run only by a stop request made during that run, and a run that
\* returns without one has run all its phases and published 'Completed'.
C39_StopDoesNotCarryOver ==
    [][/\ (~isRunning /\ StopOperation) => UNCHANGED vars
       /\ (~Unsettled /\ Unsettled') => ~shouldStop'
       /\ (isRunning' /\ shouldStop') => h'.stopPhase # "none"
       /\ (pc' = "done" /\ result'.kind = "resolved" /\ h'.stopPhase = "none")
             => (RanAllPhases' /\ published'.currentStep = "Completed")]_vars

\* After a run that was asked to stop, a second run, with no stop request of
\* its own, went through all its phases and completed.
C39_Witness ==
    /\ h.runs = 2
    /\ h.earlierStop
    /\ h.stopPhase = "none"
    /\ pc = "done"
    /\ RanAllPhases
    /\ published.currentStep = "Completed"

\* The least fee a funding transaction costs the master wallet: its gas
\* times a gas price, at least one unit of the smallest amount.
MinFundingFee == 1

\* The planning of lines 78-109 has accepted the balance read.
PlanPassed ==
    /\ masterBalance # 0
    /\ error # "insufficient"
    /\ pc \notin {"idle", "load"}

\* What the run sends to wallet k under a plan: gasAmount + purchaseAmount
\* (line 156).
AmountToSend(allocations, k) == FlAdd(ConfigAmounts.gasAmount, allocations[k])

\* The exact total of the amounts sent to wallets 1..k.
RECURSIVE TotalSent(_, _)
TotalSent(allocations, k) ==
    IF k = 0 THEN 0 ELSE AmountToSend(allocations, k) + TotalSent(allocations, k - 1)

\* C40: for every run that passes the start-of-run balance check, the
\* amounts sent to the wallets plus the fees of the numWallets funding
\* transactions do not exceed the master balance read at the start.
C40_PlanLeavesRoomForFees ==
    PlanPassed =>
        \A outcome \in PlanOutcomes(masterBalance, config.numWallets) :
            ~PlanningThrows(outcome, masterBalance, config.numWallets) =>
                TotalSent(outcome.allocations, config.numWallets)
                    + config.numWallets * MinFundingFee <= masterBalance

====
